---- MODULE Spec2Model ----
(***************************************************************************)
(* A model of the Juniper driver of netmiko (src/netmiko/juniper/          *)
(* juniper.py): the configuration-mode state machine and the commit        *)
(* protocol of one session, run against a device that answers each         *)
(* command in one of the ways a Junos CLI can.                             *)
(*                                                                         *)
(* Text is a sequence of tokens (a word, a punctuation character or a line *)
(* terminator), so that "x in text" is a search for a subsequence and      *)
(* string concatenation is \o.  Sleeps and delay factors change no state   *)
(* and are left out.  One caller drives the session, one call at a time;   *)
(* the variable writes is the log of what the current call has written to  *)
(* the channel.                                                            *)
(***************************************************************************)
EXTENDS Integers, Sequences, FiniteSets, TLC

(* ---------------------------------------------------------------- bounds *)
MaxCommentLen == 2
MaxDelay == 2

(* ------------------------------------------------------------------ text *)
RETURN == <<"\n">>
QUOTE == "\""

RECURSIVE SeqsUpTo(_, _)
SeqsUpTo(S, n) ==
    IF n = 0 THEN {<<>>}
    ELSE LET shorter == SeqsUpTo(S, n - 1)
         IN  shorter \cup {Append(s, c) : s \in {t \in shorter : Len(t) = n - 1}, c \in S}

\* Python's  sub in text  on strings
Contains(text, sub) ==
    \E i \in 0..(Len(text) - Len(sub)) : SubSeq(text, i + 1, i + Len(sub)) = sub

\* Python's  str(n)  for a non-negative integer
Digits == <<"0", "1", "2", "3", "4", "5", "6", "7", "8", "9">>
RECURSIVE IntToStr(_)
IntToStr(n) ==
    IF n < 10 THEN <<Digits[n + 1]>>
    ELSE IntToStr(n \div 10) \o <<Digits[(n % 10) + 1]>>

\* Python's  re.escape: a backslash before every special character
Special == {".", "^", "$", "*", "+", "?", "{", "}", "[", "]", "\\", "|", "(", ")"}
RECURSIVE ReEscape(_)
ReEscape(s) ==
    IF s = <<>> THEN <<>>
    ELSE (IF Head(s) \in Special THEN <<"\\", Head(s)>> ELSE <<Head(s)>>)
         \o ReEscape(Tail(s))

\* Python's  re.search  for the patterns used here: a backslash makes the next
\* character literal, a bare dot matches any one character.
RECURSIVE Atoms(_)
Atoms(p) ==
    IF p = <<>> THEN <<>>
    ELSE IF Head(p) = "\\" /\ Len(p) >= 2
         THEN <<[any |-> FALSE, c |-> p[2]]>> \o Atoms(Tail(Tail(p)))
    ELSE IF Head(p) = "."
         THEN <<[any |-> TRUE, c |-> "."]>> \o Atoms(Tail(p))
    ELSE <<[any |-> FALSE, c |-> Head(p)]>> \o Atoms(Tail(p))

ReSearch(pattern, text) ==
    LET a == Atoms(pattern)
    IN  \E i \in 0..(Len(text) - Len(a)) :
            \A j \in 1..Len(a) : a[j].any \/ a[j].c = text[i + j]

(* ------------------------------------------------------------ exceptions *)
NoError == [type |-> "None", msg |-> <<>>]
ValueError(msg) == [type |-> "ValueError", msg |-> msg]
\* raised by the channel's blocking read when the pattern never shows up
ReadTimeout == [type |-> "ReadTimeout", msg |-> <<"Pattern not detected">>]

InvalidCheckMsg == <<"Invalid arguments supplied with commit check">>
InvalidDelayMsg == <<"Invalid arguments supplied to commit method both confirm and check">>
InvalidCommentMsg == <<"Invalid comment contains double quote">>
CommitFailedMsg(output) ==
    <<"Commit failed with the following errors:", "\n", "\n">> \o output
ExitFailedMsg == <<"Failed to exit configuration mode">>
EnterFailedMsg == <<"Failed to enter configuration mode.">>

(* ------------------------------------------------------- commit's inputs *)
CommitMarkerPlain == <<"commit", " ", "complete">>
CommitMarkerCheck == <<"configuration", " ", "check", " ", "succeeds">>
CommitMarkerConfirmed ==
    <<"commit", " ", "confirmed", " ", "will", " ", "be", " ", "automatically",
      " ", "rolled", " ", "back", " ", "in">>

\* comments: every text of up to MaxCommentLen tokens, and one that spells
\* the success marker of a plain commit
Comments == SeqsUpTo({"fix", QUOTE}, MaxCommentLen) \cup {CommitMarkerPlain}

\* confirm_delay: 0 stands for None (both are false in a condition), the
\* others are the documented positive delays
CommitArgs ==
    [confirm : BOOLEAN, confirm_delay : 0..MaxDelay, check : BOOLEAN,
     comment : Comments, and_quit : BOOLEAN]
NoArgs ==
    [confirm |-> FALSE, confirm_delay |-> 0, check |-> FALSE,
     comment |-> <<>>, and_quit |-> FALSE]

BasePrompts == {<<"admin", "@", "mx1">>, <<"admin", "@", "mx1", ".", "lab">>}

(* ----------------------------------------------------------------- state *)
VARIABLES
    mode,            \* CLI mode of the session's device: "operational" | "config"
    base_prompt,     \* self.base_prompt
    fast_cli,        \* self.fast_cli
    writes,          \* what the current call has written to the channel, in order
    op,              \* the operation being run (or last run)
    pc,              \* position in it; "done" when it has returned or raised
    args,            \* commit's arguments
    command_string,  \* commit's locals
    commit_marker,
    expect_string,   \* <<>> is None, <<p>> is the pattern p
    fast_cli_state,
    output,          \* the running operation's local  output
    cm_output,       \* what config_mode() returned to commit
    cmd_out,         \* what the last send_command / send_command_timing returned
    in_config,       \* result of the last check_config_mode()
    exc,             \* exception in flight inside commit's try block
    raised,          \* exception that left the operation, NoError if none
    pre              \* mode, base_prompt and fast_cli when the call started

\* state of the other parts of the driver: the dialect of the session, the
\* sanitizer's argument and result
VARIABLES
    dialect,         \* "juniper" | "hp_comware" | "broadcom_icos"
    a_string,        \* strip_context_items: its argument
    result,          \* strip_context_items: <<r>> once it has returned r
    session_log_fin, \* _session_log_fin: cleanup() has announced the last write
    buffer,          \* what the device has sent and the session has not read
    dev,             \* the device while it is primed: host, banner, need, mute
    steps,           \* session_preparation: the channel methods called so far
    loop_i,          \* session_preparation of Comware: its loop counter i
    polls,           \* _test_channel_read: the polls made
    new_data,        \* _test_channel_read: the text read so far
    prompt_line,     \* set_base_prompt called by itself: the line the device shows
    count,           \* enter_cli_mode: the iterations made
    cur_prompt,      \* enter_cli_mode: the text the last read returned
    callers,         \* two callers of one session: the frame of each
    channel          \* their writes and reads of the channel, in order

prime == <<buffer, dev, steps, loop_i, polls, new_data>>

shared == <<callers, channel>>

aux == <<dialect, a_string, result, session_log_fin, prime, shared,
         prompt_line, count, cur_prompt>>

vars == <<mode, base_prompt, fast_cli, writes, op, pc, args, command_string,
          commit_marker, expect_string, fast_cli_state, output, cm_output,
          cmd_out, in_config, exc, raised, pre, aux>>

\* a session with one caller
OneCaller ==
    /\ callers = <<>>
    /\ channel = <<>>

\* a session that was primed before: its host name is its base prompt
PrimeIdle ==
    /\ buffer = <<>>
    /\ dev = [host |-> base_prompt, banner |-> 0, need |-> 0, mute |-> FALSE]
    /\ steps = <<>>
    /\ loop_i = 0
    /\ polls = 0
    /\ new_data = <<>>
    /\ prompt_line = <<>>
    /\ count = 0
    /\ cur_prompt = <<>>

\* a Juniper session on which no sanitizing is going on
AuxIdle ==
    /\ dialect = "juniper"
    /\ a_string = <<>>
    /\ result = <<>>
    /\ session_log_fin = FALSE
    /\ PrimeIdle
    /\ OneCaller

Init ==
    /\ mode \in {"operational", "config"}
    /\ base_prompt \in BasePrompts
    /\ fast_cli \in BOOLEAN
    /\ writes = <<>>
    /\ op = "none"
    /\ pc = "done"
    /\ args = NoArgs
    /\ command_string = <<>>
    /\ commit_marker = <<>>
    /\ expect_string = <<>>
    /\ fast_cli_state = FALSE
    /\ output = <<>>
    /\ cm_output = <<>>
    /\ cmd_out = <<>>
    /\ in_config = FALSE
    /\ exc = NoError
    /\ raised = NoError
    /\ pre = [mode |-> mode, base_prompt |-> base_prompt, fast_cli |-> fast_cli]
    /\ AuxIdle

\* a fresh call frame: nothing written, no locals, the session as it stands
Enter(name, a, first) ==
    /\ pc = "done"
    /\ op' = name
    /\ pc' = first
    /\ args' = a
    /\ writes' = <<>>
    /\ command_string' = <<>>
    /\ commit_marker' = <<>>
    /\ expect_string' = <<>>
    /\ fast_cli_state' = FALSE
    /\ output' = <<>>
    /\ cm_output' = <<>>
    /\ cmd_out' = <<>>
    /\ in_config' = FALSE
    /\ exc' = NoError
    /\ raised' = NoError
    /\ pre' = [mode |-> mode, base_prompt |-> base_prompt, fast_cli |-> fast_cli]
    /\ UNCHANGED <<mode, base_prompt, fast_cli>>
    /\ UNCHANGED aux

Raise(e) ==
    /\ raised' = e
    /\ pc' = "done"

(* ---------------------------------------------------- the session's device *)
\* The device prints its prompt in answer to every line it is sent: the
\* hostname part is what the session keeps as base_prompt, a configuration
\* prompt comes under an [edit] banner line.
PromptLine(m) == base_prompt \o (IF m = "config" THEN <<"#">> ELSE <<">">>)
Prompt(m) ==
    IF m = "config" THEN <<"[", "edit", "]", "\n">> \o PromptLine(m)
    ELSE PromptLine(m)

EndsWith(text, suffix) ==
    /\ Len(text) >= Len(suffix)
    /\ SubSeq(text, Len(text) - Len(suffix) + 1, Len(text)) = suffix

UncommittedPrompt == <<"Exit with uncommitted changes?">>

\* Answers to the enter-configuration command: the device enters, the device
\* announces the mode but stays operational, or the device refuses.
ConfigureReplies(cmd) ==
    { [text |-> cmd \o <<"Entering", " ", "configuration", " ", "mode", "\n">>
                    \o Prompt("config"),
       mode |-> "config"],
      [text |-> cmd \o <<"Entering", " ", "configuration", " ", "mode", "\n",
                         "error: shutting down", "\n">> \o Prompt("operational"),
       mode |-> "operational"],
      [text |-> cmd \o <<"error: permission denied", "\n">> \o Prompt("operational"),
       mode |-> "operational"] }

\* Answers to a commit command sent in mode m: one of the three success
\* texts, an error, or nothing after the echo.  A successful commit with
\* and-quit leaves configuration mode.
CommitReplies(cmd, m) ==
    LET quit == EndsWith(cmd, <<" ", "and-quit", "\n">>)
        after == IF quit THEN "operational" ELSE m
        tail == IF quit
                THEN <<"Exiting configuration mode", "\n">> \o Prompt(after)
                ELSE Prompt(after)
    IN  IF m # "config"
        THEN { [text |-> cmd \o <<"error: unknown command", "\n">> \o Prompt(m),
                mode |-> m] }
        ELSE { [text |-> cmd \o CommitMarkerPlain \o <<"\n">> \o tail,
                mode |-> after],
               [text |-> cmd \o CommitMarkerCheck \o <<"\n">> \o tail,
                mode |-> after],
               [text |-> cmd \o CommitMarkerConfirmed
                             \o <<" ", "10", " ", "minutes", " ", "unless", " ",
                                  "confirmed", "\n">>
                             \o CommitMarkerPlain \o <<"\n">> \o tail,
                mode |-> after],
               [text |-> cmd \o <<"error: configuration check-out failed", "\n">>
                             \o Prompt(m),
                mode |-> m],
               [text |-> cmd, mode |-> m] }

\* Answers to the exit command sent in configuration mode: the device
\* leaves, asks about uncommitted changes, or stays.
ExitReplies(cmd) ==
    { [text |-> cmd \o <<"Exiting configuration mode", "\n">> \o Prompt("operational"),
       mode |-> "operational"],
      [text |-> cmd \o <<"The configuration has been changed but not committed", "\n">>
                    \o UncommittedPrompt \o <<" ", "[", "yes,no", "]", " ", "(yes)", " ">>,
       mode |-> "config"],
      [text |-> cmd \o <<"error: unknown command", "\n">> \o Prompt("config"),
       mode |-> "config"] }

\* Answers to "yes" at the uncommitted-changes question.
YesReplies(cmd) ==
    { [text |-> cmd \o <<"Exiting configuration mode", "\n">> \o Prompt("operational"),
       mode |-> "operational"],
      [text |-> cmd \o Prompt("config"), mode |-> "config"] }

(* ------------------------------------------- the base connection's methods *)
\* normalize_cmd: the command with the line terminator
NormalizeCmd(cmd) == cmd \o RETURN

\* check_config_mode(check_string): write a bare return, read what comes
\* back, test for the check string.
CheckRead == RETURN \o Prompt(mode)
CheckConfigModeStep(check_string) ==
    /\ writes' = Append(writes, RETURN)
    /\ in_config' = Contains(CheckRead, check_string)

\* the pattern send_command waits for: expect_string, or the prompt line the
\* session shows when the command is sent
SearchPattern(expect) ==
    IF expect = <<>> THEN ReEscape(PromptLine(mode)) ELSE expect[1]

(* ----------------------------------------------- JuniperBase: config mode *)
CheckString == <<"]">>
ConfigCommand == <<"configure">>
ConfigPattern == <<"Entering", " ", "configuration", " ", "mode">>
ExitConfig == <<"exit", " ", "configuration-mode">>

\* where config_mode() hands its output to
ConfigModeReturn(out) ==
    /\ output' = out
    /\ cm_output' = (IF op = "commit" THEN out ELSE cm_output)
    /\ pc' = (IF op = "commit" THEN "commit_expect" ELSE "done")

ConfigModeCall == Enter("config_mode", NoArgs, "cm_check")

ConfigModeCheck ==
    /\ pc = "cm_check"
    /\ CheckConfigModeStep(CheckString)
    /\ IF in_config'
       THEN ConfigModeReturn(<<>>)
       ELSE pc' = "cm_enter" /\ UNCHANGED <<output, cm_output>>
    /\ UNCHANGED <<mode, base_prompt, fast_cli, op, args, command_string,
                   commit_marker, expect_string, fast_cli_state, cmd_out, exc,
                   raised, pre>>
    /\ UNCHANGED aux

ConfigModeEnter ==
    /\ pc = "cm_enter"
    /\ writes' = Append(writes, NormalizeCmd(ConfigCommand))
    /\ \E r \in ConfigureReplies(NormalizeCmd(ConfigCommand)) :
          IF ReSearch(ConfigPattern, r.text)
          THEN /\ mode' = r.mode
               /\ output' = r.text
               /\ pc' = "cm_recheck"
               /\ UNCHANGED raised
          ELSE /\ mode' = r.mode
               /\ Raise(ReadTimeout)
               /\ UNCHANGED output
    /\ UNCHANGED <<base_prompt, fast_cli, op, args, command_string,
                   commit_marker, expect_string, fast_cli_state, cm_output,
                   cmd_out, in_config, exc, pre>>
    /\ UNCHANGED aux

ConfigModeRecheck ==
    /\ pc = "cm_recheck"
    /\ CheckConfigModeStep(CheckString)
    /\ IF in_config'
       THEN ConfigModeReturn(output) /\ UNCHANGED raised
       ELSE Raise(ValueError(EnterFailedMsg)) /\ UNCHANGED <<output, cm_output>>
    /\ UNCHANGED <<mode, base_prompt, fast_cli, op, args, command_string,
                   commit_marker, expect_string, fast_cli_state, cmd_out, exc,
                   pre>>
    /\ UNCHANGED aux

(* --------------------------------------------------- JuniperBase.commit() *)
CommitCall == \E a \in CommitArgs : Enter("commit", a, "commit_validate")

\* a check that forgets the comment
InvalidCheckNoComment(a) == a.check /\ (a.confirm \/ a.confirm_delay # 0)

\* a check that also refuses the quit option
InvalidCheckRejectsQuit(a) ==
    a.check /\ (a.confirm \/ a.confirm_delay # 0 \/ a.comment # <<>> \/ a.and_quit)

\* the two argument checks
InvalidCheck(a) ==
    a.check /\ (a.confirm \/ a.confirm_delay # 0 \/ a.comment # <<>>)
InvalidDelay(a) == a.confirm_delay # 0 /\ ~a.confirm

CommitValidate ==
    /\ pc = "commit_validate"
    /\ IF InvalidCheck(args) THEN Raise(ValueError(InvalidCheckMsg))
       ELSE IF InvalidDelay(args) THEN Raise(ValueError(InvalidDelayMsg))
       ELSE pc' = "commit_select" /\ UNCHANGED raised
    /\ UNCHANGED <<mode, base_prompt, fast_cli, writes, op, args,
                   command_string, commit_marker, expect_string,
                   fast_cli_state, output, cm_output, cmd_out, in_config,
                   exc, pre>>
    /\ UNCHANGED aux

\* a selection that leaves the delay out of the confirmed commit
SelectCommandDropDelay(a) ==
    IF a.check
    THEN [command_string |-> <<"commit", " ", "check">>,
          commit_marker |-> CommitMarkerCheck]
    ELSE IF a.confirm
    THEN [command_string |-> <<"commit", " ", "confirmed">>,
          commit_marker |-> CommitMarkerConfirmed]
    ELSE [command_string |-> <<"commit">>, commit_marker |-> CommitMarkerPlain]

\* command string and marker by the arguments
SelectCommand(a) ==
    IF a.check
    THEN [command_string |-> <<"commit", " ", "check">>,
          commit_marker |-> CommitMarkerCheck]
    ELSE IF a.confirm
    THEN [command_string |->
              IF a.confirm_delay # 0
              THEN <<"commit", " ", "confirmed", " ">> \o IntToStr(a.confirm_delay)
              ELSE <<"commit", " ", "confirmed">>,
          commit_marker |-> CommitMarkerConfirmed]
    ELSE [command_string |-> <<"commit">>, commit_marker |-> CommitMarkerPlain]

CommitSelect ==
    /\ pc = "commit_select"
    /\ command_string' = SelectCommand(args).command_string
    /\ commit_marker' = SelectCommand(args).commit_marker
    /\ pc' = "commit_comment"
    /\ UNCHANGED <<mode, base_prompt, fast_cli, writes, op, args,
                   expect_string, fast_cli_state, output, cm_output, cmd_out,
                   in_config, exc, raised, pre>>
    /\ UNCHANGED aux

\* options appended in the other order
AppendOptionsQuitFirst(cmd, a) ==
    (IF a.and_quit THEN cmd \o <<" ", "and-quit">> ELSE cmd)
    \o (IF a.comment # <<>>
        THEN <<" ", "comment", " ">> \o (<<QUOTE>> \o a.comment \o <<QUOTE>>)
        ELSE <<>>)

\* the comment in quotes, then the quit option
AppendOptions(cmd, a) ==
    (IF a.comment # <<>>
     THEN cmd \o <<" ", "comment", " ">> \o (<<QUOTE>> \o a.comment \o <<QUOTE>>)
     ELSE cmd)
    \o (IF a.and_quit THEN <<" ", "and-quit">> ELSE <<>>)

\* a comment check that lets every comment through
BadCommentNever(comment) == FALSE

\* the comment that cannot be wrapped in quotes
BadComment(comment) == comment # <<>> /\ Contains(comment, <<QUOTE>>)

\* a commit that does not enter configuration mode first
SkipConfigMode == "commit_expect"

\* what follows the building of the command: config_mode()
AfterCommandBuilt == "cm_check"

CommitComment ==
    /\ pc = "commit_comment"
    /\ IF BadComment(args.comment)
       THEN Raise(ValueError(InvalidCommentMsg)) /\ UNCHANGED command_string
       ELSE /\ command_string' = AppendOptions(command_string, args)
            /\ pc' = AfterCommandBuilt
            /\ UNCHANGED raised
    /\ UNCHANGED <<mode, base_prompt, fast_cli, writes, op, args,
                   commit_marker, expect_string, fast_cli_state, output,
                   cm_output, cmd_out, in_config, exc, pre>>
    /\ UNCHANGED aux

\* the base prompt used as a pattern as it is
ExpectStringUnescaped(a) == IF a.and_quit THEN <<base_prompt>> ELSE <<>>

\* the pattern commit waits for
ExpectString(a) == IF a.and_quit THEN <<ReEscape(base_prompt)>> ELSE <<>>

CommitExpect ==
    /\ pc = "commit_expect"
    /\ expect_string' = ExpectString(args)
    /\ pc' = "commit_try"
    /\ UNCHANGED <<mode, base_prompt, fast_cli, writes, op, args,
                   command_string, commit_marker, fast_cli_state, output,
                   cm_output, cmd_out, in_config, exc, raised, pre>>
    /\ UNCHANGED aux

CommitTry ==
    /\ pc = "commit_try"
    /\ fast_cli_state' = fast_cli
    /\ fast_cli' = FALSE
    /\ pc' = "commit_send"
    /\ UNCHANGED <<mode, base_prompt, writes, op, args, command_string,
                   commit_marker, expect_string, output, cm_output, cmd_out,
                   in_config, exc, raised, pre>>
    /\ UNCHANGED aux

\* a send that writes the command again when its pattern did not show up
CommitSendRetry ==
    /\ pc = "commit_send"
    /\ \E r \in CommitReplies(NormalizeCmd(command_string), mode) :
          /\ mode' = r.mode
          /\ IF ReSearch(SearchPattern(expect_string), r.text)
             THEN /\ writes' = Append(writes, NormalizeCmd(command_string))
                  /\ cmd_out' = r.text
                  /\ output' = output \o r.text
                  /\ UNCHANGED exc
             ELSE /\ writes' = writes \o <<NormalizeCmd(command_string),
                                           NormalizeCmd(command_string)>>
                  /\ exc' = ReadTimeout
                  /\ UNCHANGED <<cmd_out, output>>
    /\ pc' = "commit_finally"
    /\ UNCHANGED <<base_prompt, fast_cli, op, args, command_string,
                   commit_marker, expect_string, fast_cli_state, cm_output,
                   in_config, raised, pre>>
    /\ UNCHANGED aux

\* output += send_command(command_string, expect_string, ...): the command
\* is written, the read ends when the pattern shows up and fails otherwise
CommitSend ==
    /\ pc = "commit_send"
    /\ writes' = Append(writes, NormalizeCmd(command_string))
    /\ \E r \in CommitReplies(NormalizeCmd(command_string), mode) :
          /\ mode' = r.mode
          /\ IF ReSearch(SearchPattern(expect_string), r.text)
             THEN /\ cmd_out' = r.text
                  /\ output' = output \o r.text
                  /\ UNCHANGED exc
             ELSE /\ exc' = ReadTimeout
                  /\ UNCHANGED <<cmd_out, output>>
    /\ pc' = "commit_finally"
    /\ UNCHANGED <<base_prompt, fast_cli, op, args, command_string,
                   commit_marker, expect_string, fast_cli_state, cm_output,
                   in_config, raised, pre>>
    /\ UNCHANGED aux

\* the flag restored after the send instead of in a finally clause
CommitFinallyNoRestoreOnRaise ==
    /\ pc = "commit_finally"
    /\ IF exc # NoError
       THEN Raise(exc) /\ exc' = NoError /\ UNCHANGED fast_cli
       ELSE /\ fast_cli' = fast_cli_state
            /\ pc' = "commit_verify"
            /\ UNCHANGED <<raised, exc>>
    /\ UNCHANGED <<mode, base_prompt, writes, op, args, command_string,
                   commit_marker, expect_string, fast_cli_state, output,
                   cm_output, cmd_out, in_config, pre>>
    /\ UNCHANGED aux

CommitFinally ==
    /\ pc = "commit_finally"
    /\ fast_cli' = fast_cli_state
    /\ IF exc # NoError
       THEN Raise(exc) /\ exc' = NoError
       ELSE pc' = "commit_verify" /\ UNCHANGED <<raised, exc>>
    /\ UNCHANGED <<mode, base_prompt, writes, op, args, command_string,
                   commit_marker, expect_string, fast_cli_state, output,
                   cm_output, cmd_out, in_config, pre>>
    /\ UNCHANGED aux

\* an error that carries the commit command's output alone
CommitVerifyLastOutputOnly ==
    /\ pc = "commit_verify"
    /\ IF ~Contains(output, commit_marker)
       THEN Raise(ValueError(CommitFailedMsg(cmd_out)))
       ELSE pc' = "done" /\ UNCHANGED raised
    /\ UNCHANGED <<mode, base_prompt, fast_cli, writes, op, args,
                   command_string, commit_marker, expect_string,
                   fast_cli_state, output, cm_output, cmd_out, in_config,
                   exc, pre>>
    /\ UNCHANGED aux

\* a commit that leaves configuration mode itself when it has succeeded
CommitVerifyThenExit ==
    /\ pc = "commit_verify"
    /\ IF ~Contains(output, commit_marker)
       THEN Raise(ValueError(CommitFailedMsg(output))) /\ UNCHANGED <<writes, mode>>
       ELSE /\ writes' = Append(writes, NormalizeCmd(ExitConfig))
            /\ mode' = "operational"
            /\ pc' = "done"
            /\ UNCHANGED raised
    /\ UNCHANGED <<base_prompt, fast_cli, op, args, command_string,
                   commit_marker, expect_string, fast_cli_state, output,
                   cm_output, cmd_out, in_config, exc, pre>>
    /\ UNCHANGED aux

CommitVerify ==
    /\ pc = "commit_verify"
    /\ IF ~Contains(output, commit_marker)
       THEN Raise(ValueError(CommitFailedMsg(output)))
       ELSE pc' = "done" /\ UNCHANGED raised
    /\ UNCHANGED <<mode, base_prompt, fast_cli, writes, op, args,
                   command_string, commit_marker, expect_string,
                   fast_cli_state, output, cm_output, cmd_out, in_config,
                   exc, pre>>
    /\ UNCHANGED aux

(* ----------------------------------------- JuniperBase.exit_config_mode() *)
ExitConfigModeCall == Enter("exit_config_mode", NoArgs, "exit_check")

\* an exit that sends its command whatever the mode check found
ExitCheckAlwaysSend ==
    /\ pc = "exit_check"
    /\ CheckConfigModeStep(CheckString)
    /\ pc' = "exit_send"
    /\ UNCHANGED <<mode, base_prompt, fast_cli, op, args, command_string,
                   commit_marker, expect_string, fast_cli_state, output,
                   cm_output, cmd_out, exc, raised, pre>>
    /\ UNCHANGED aux

ExitCheck ==
    /\ pc = "exit_check"
    /\ CheckConfigModeStep(CheckString)
    /\ pc' = (IF in_config' THEN "exit_send" ELSE "done")
    /\ UNCHANGED <<mode, base_prompt, fast_cli, op, args, command_string,
                   commit_marker, expect_string, fast_cli_state, output,
                   cm_output, cmd_out, exc, raised, pre>>
    /\ UNCHANGED aux

\* output = send_command_timing(exit_config, ...)
ExitSend ==
    /\ pc = "exit_send"
    /\ writes' = Append(writes, NormalizeCmd(ExitConfig))
    /\ \E r \in ExitReplies(NormalizeCmd(ExitConfig)) :
          /\ mode' = r.mode
          /\ cmd_out' = r.text
          /\ output' = r.text
    /\ pc' = "exit_confirm"
    /\ UNCHANGED <<base_prompt, fast_cli, op, args, command_string,
                   commit_marker, expect_string, fast_cli_state, cm_output,
                   in_config, exc, raised, pre>>
    /\ UNCHANGED aux

\* a "yes" sent whatever the device answered
ExitConfirmAlways ==
    /\ pc = "exit_confirm"
    /\ writes' = Append(writes, NormalizeCmd(<<"yes">>))
    /\ \E r \in YesReplies(NormalizeCmd(<<"yes">>)) :
          /\ mode' = r.mode
          /\ cmd_out' = r.text
          /\ output' = output \o r.text
    /\ pc' = "exit_recheck"
    /\ UNCHANGED <<base_prompt, fast_cli, op, args, command_string,
                   commit_marker, expect_string, fast_cli_state, cm_output,
                   in_config, exc, raised, pre>>
    /\ UNCHANGED aux

\* if "Exit with uncommitted changes?" in output: output += send_command_timing("yes")
ExitConfirm ==
    /\ pc = "exit_confirm"
    /\ IF Contains(output, UncommittedPrompt)
       THEN /\ writes' = Append(writes, NormalizeCmd(<<"yes">>))
            /\ \E r \in YesReplies(NormalizeCmd(<<"yes">>)) :
                  /\ mode' = r.mode
                  /\ cmd_out' = r.text
                  /\ output' = output \o r.text
       ELSE UNCHANGED <<writes, mode, cmd_out, output>>
    /\ pc' = "exit_recheck"
    /\ UNCHANGED <<base_prompt, fast_cli, op, args, command_string,
                   commit_marker, expect_string, fast_cli_state, cm_output,
                   in_config, exc, raised, pre>>
    /\ UNCHANGED aux

\* an exit that returns without looking at the mode again
ExitRecheckNoRaise ==
    /\ pc = "exit_recheck"
    /\ CheckConfigModeStep(CheckString)
    /\ pc' = "done"
    /\ UNCHANGED <<mode, base_prompt, fast_cli, op, args, command_string,
                   commit_marker, expect_string, fast_cli_state, output,
                   cm_output, cmd_out, exc, raised, pre>>
    /\ UNCHANGED aux

ExitRecheck ==
    /\ pc = "exit_recheck"
    /\ CheckConfigModeStep(CheckString)
    /\ IF in_config'
       THEN Raise(ValueError(ExitFailedMsg))
       ELSE pc' = "done" /\ UNCHANGED raised
    /\ UNCHANGED <<mode, base_prompt, fast_cli, op, args, command_string,
                   commit_marker, expect_string, fast_cli_state, output,
                   cm_output, cmd_out, exc, pre>>
    /\ UNCHANGED aux

(* --------------------------------------------------------- specification *)
Next ==
    \/ ConfigModeCall
    \/ ConfigModeCheck
    \/ ConfigModeEnter
    \/ ConfigModeRecheck
    \/ CommitCall
    \/ CommitValidate
    \/ CommitSelect
    \/ CommitComment
    \/ CommitExpect
    \/ CommitTry
    \/ CommitSend
    \/ CommitFinally
    \/ CommitVerify
    \/ ExitConfigModeCall
    \/ ExitCheck
    \/ ExitSend
    \/ ExitConfirm
    \/ ExitRecheck

Spec == Init /\ [][Next]_vars

TypeOK ==
    /\ mode \in {"operational", "config", "user"}
    /\ fast_cli \in BOOLEAN
    /\ op \in {"none", "commit", "config_mode", "exit_config_mode",
              "check_config_mode", "enable", "exit_enable_mode",
              "check_enable_mode", "cleanup", "session_preparation"}
    /\ args \in CommitArgs

(* ---------------------------------------------------------------- claims *)
InvalidArgumentMsgs == {InvalidCheckMsg, InvalidDelayMsg, InvalidCommentMsg}
SessionAsBefore ==
    /\ mode = pre.mode
    /\ base_prompt = pre.base_prompt
    /\ fast_cli = pre.fast_cli
\* the commit command is on the channel
CommitWritten ==
    /\ op = "commit"
    /\ writes # <<>>
    /\ writes[Len(writes)] = command_string \o RETURN
    /\ pc \in {"commit_finally", "commit_verify", "done"}
\* the table of section 4.4
TableCommand(a) ==
    IF a.check THEN <<"commit", " ", "check">>
    ELSE IF a.confirm /\ a.confirm_delay # 0
         THEN <<"commit", " ", "confirmed", " ", Digits[a.confirm_delay + 1]>>
    ELSE IF a.confirm THEN <<"commit", " ", "confirmed">>
    ELSE <<"commit">>
TableMarker(a) ==
    IF a.check THEN <<"configuration", " ", "check", " ", "succeeds">>
    ELSE IF a.confirm
         THEN <<"commit", " ", "confirmed", " ", "will", " ", "be", " ",
                "automatically", " ", "rolled", " ", "back", " ", "in">>
    ELSE <<"commit", " ", "complete">>

\* C1: a commit() with check together with confirm, a confirm_delay or a
\* non-empty comment, or with a confirm_delay and no confirm, ends with the
\* invalid-arguments error, has written nothing to the channel, and leaves
\* mode, base prompt and fast-mode flag as they were.
C1_IllegalArgumentsRaiseUntouched ==
    (/\ op = "commit"
     /\ pc # "commit_validate"
     /\ \/ args.check /\ (args.confirm \/ args.confirm_delay # 0 \/ args.comment # <<>>)
        \/ args.confirm_delay # 0 /\ ~args.confirm)
    => /\ pc = "done"
       /\ raised.type = "ValueError"
       /\ raised.msg \in {InvalidCheckMsg, InvalidDelayMsg}
       /\ writes = <<>>
       /\ SessionAsBefore
C1_Witness ==
    /\ op = "commit" /\ pc = "done"
    /\ args.check /\ args.comment # <<>> /\ ~args.confirm /\ args.confirm_delay = 0
    /\ raised = ValueError(InvalidCheckMsg)

\* C2: a commit() whose comment holds a double quote ends with the
\* invalid-arguments error and nothing is ever written by it: neither the
\* enter-configuration command nor a commit command, whatever the other
\* arguments.
C2_QuotedCommentRaisesBeforeWrite ==
    (op = "commit" /\ Contains(args.comment, <<QUOTE>>))
    => /\ writes = <<>>
       /\ \/ pc \in {"commit_validate", "commit_select", "commit_comment"}
          \/ /\ pc = "done"
             /\ raised.type = "ValueError"
             /\ raised.msg \in InvalidArgumentMsgs
C2_Witness ==
    /\ op = "commit" /\ pc = "done"
    /\ Contains(args.comment, <<QUOTE>>) /\ args.confirm /\ args.and_quit
    /\ raised = ValueError(InvalidCommentMsg)

\* C3: for valid arguments the base command and the success marker are
\* those of the table, first match: check, confirm with delay, confirm,
\* default.
C3_CommandSelection ==
    /\ (op = "commit" /\ pc = "commit_comment")
       => command_string = TableCommand(args)
    /\ (op = "commit" /\ pc \in {"commit_comment", "commit_send", "commit_verify"})
       => commit_marker = TableMarker(args)
C3_Witness ==
    /\ op = "commit" /\ pc = "commit_comment"
    /\ args.confirm /\ args.confirm_delay = 2
    /\ command_string = <<"commit", " ", "confirmed", " ", "2">>

\* C4: the command written is the base command, then  comment "<text>"
\* exactly when the comment is not empty, then the quit suffix exactly when
\* and_quit is set, and nothing else.
C4_CommandStringLayout ==
    CommitWritten
    => writes[Len(writes)] =
          TableCommand(args)
          \o (IF args.comment # <<>>
              THEN <<" ", "comment", " ", QUOTE>> \o args.comment \o <<QUOTE>>
              ELSE <<>>)
          \o (IF args.and_quit THEN <<" ", "and-quit">> ELSE <<>>)
          \o RETURN
C4_Witness ==
    /\ CommitWritten
    /\ args.comment = <<"fix", "fix">> /\ args.and_quit /\ args.confirm
    /\ writes[Len(writes)] =
          <<"commit", " ", "confirmed", " ", "comment", " ", QUOTE, "fix", "fix",
            QUOTE, " ", "and-quit", "\n">>

\* C5 as stated: a commit() whose command went out either returns with the
\* marker in its output or raises the commit-failed error with the full
\* output.
C5_MarkerOrCommitFailed ==
    (CommitWritten /\ pc = "done")
    => \/ raised = NoError /\ Contains(output, commit_marker)
       \/ raised = ValueError(CommitFailedMsg(cm_output \o cmd_out))

\* C5: commit() returns normally only with the marker of the selected
\* variant in the collected output; when the read of the commit command
\* completes and the collected output lacks the marker, it raises the
\* commit-failed error, which carries the output of the configuration-mode
\* entry followed by the output of the commit command; a read that does not
\* complete raises its own error instead.
C5_MarkerDecidesCompletedCommit ==
    (op = "commit" /\ pc = "done")
    => /\ raised = NoError
          => /\ Contains(output, TableMarker(args))
             /\ output = cm_output \o cmd_out
       /\ (CommitWritten /\ raised # ReadTimeout)
          => IF Contains(cm_output \o cmd_out, TableMarker(args))
             THEN raised = NoError
             ELSE raised = ValueError(CommitFailedMsg(cm_output \o cmd_out))
       /\ (CommitWritten /\ raised = ReadTimeout) => cmd_out = <<>>
C5_Witness ==
    /\ CommitWritten /\ pc = "done"
    /\ cm_output # <<>> /\ cmd_out # <<>>
    /\ ~Contains(output, commit_marker)
    /\ raised = ValueError(CommitFailedMsg(cm_output \o cmd_out))

\* C6: the fast-mode flag is false when the commit command is sent, and
\* when commit() has ended, by return or by any error, the flag is what it
\* was before the call.
C6_FastModeOffThenRestored ==
    /\ (op = "commit" /\ pc \in {"commit_send", "commit_finally"}) => fast_cli = FALSE
    /\ (op = "commit" /\ pc = "done") => fast_cli = pre.fast_cli
C6_Witness ==
    /\ CommitWritten /\ pc = "done"
    /\ raised = ReadTimeout
    /\ pre.fast_cli /\ fast_cli

\* C7: the commit command is written in configuration mode only, and a
\* commit() called in configuration mode does not write the
\* enter-configuration command.
C7_ConfigModeBeforeCommit ==
    /\ (op = "commit" /\ pc = "commit_send") => mode = "config"
    /\ (op = "commit" /\ pre.mode = "config")
       => \A i \in 1..Len(writes) : writes[i] # ConfigCommand \o RETURN
C7_Witness ==
    /\ op = "commit" /\ pc = "commit_send"
    /\ pre.mode = "operational" /\ mode = "config"
    /\ \E i \in 1..Len(writes) : writes[i] = ConfigCommand \o RETURN

\* texts that tell a literal match of a base prompt from a pattern match
PromptTexts ==
    UNION { { bp \o <<">">>, bp \o <<"#">>,
              [i \in 1..Len(bp) |-> IF bp[i] = "." THEN "-" ELSE bp[i]] \o <<">">>,
              SubSeq(bp, 1, Len(bp) - 1) } : bp \in BasePrompts }

\* C8: with and_quit the pattern commit waits for is the base prompt taken
\* literally (it matches exactly the texts that hold the base prompt);
\* without and_quit no pattern is supplied.
C8_ExpectBasePromptLiterally ==
    (op = "commit" /\ pc \in {"commit_try", "commit_send", "commit_finally", "commit_verify"})
    => IF args.and_quit
       THEN /\ Len(expect_string) = 1
            /\ \A t \in PromptTexts :
                  ReSearch(expect_string[1], t) <=> Contains(t, base_prompt)
       ELSE expect_string = <<>>
C8_Witness ==
    /\ op = "commit" /\ pc = "commit_verify"
    /\ args.and_quit /\ Contains(base_prompt, <<".">>)
    /\ mode = "operational"

\* C9: when the device answers the exit command with "Exit with uncommitted
\* changes?", exit_config_mode() writes "yes" once, after the exit command,
\* and checks the mode again after it; otherwise "yes" is not written.
C9_OneYesThenRecheck ==
    (op = "exit_config_mode" /\ pc \in {"exit_recheck", "done"} /\ Len(writes) >= 2)
    => writes = <<RETURN, ExitConfig \o RETURN>>
                \o (IF Contains(output, UncommittedPrompt)
                    THEN << <<"yes", "\n">> >> ELSE <<>>)
                \o (IF pc = "done" THEN <<RETURN>> ELSE <<>>)
C9_Witness ==
    /\ op = "exit_config_mode" /\ pc = "done"
    /\ writes = <<RETURN, ExitConfig \o RETURN, <<"yes", "\n">>, RETURN>>
    /\ raised = NoError

\* C10: exit_config_mode() returns normally only when its last mode check
\* said "not in configuration mode"; still in configuration mode after the
\* exit command and the one "yes", it raises the mode-transition error.
C10_ReturnsOnlyOutOfConfigMode ==
    (op = "exit_config_mode" /\ pc = "done")
    => /\ raised = NoError => (~in_config /\ mode = "operational")
       /\ mode = "config" => raised = ValueError(ExitFailedMsg)
C10_Witness ==
    /\ op = "exit_config_mode" /\ pc = "done"
    /\ Contains(output, UncommittedPrompt)
    /\ mode = "config"
    /\ raised = ValueError(ExitFailedMsg)

(* ------------------------------------------------------------------------ *)
(* The other parts of the driver each run under a specification of their    *)
(* own, on a session that makes no call of the ones above.                  *)
(* ------------------------------------------------------------------------ *)
NoCall ==
    /\ writes = <<>>
    /\ op = "none"
    /\ pc = "done"
    /\ args = NoArgs
    /\ command_string = <<>>
    /\ commit_marker = <<>>
    /\ expect_string = <<>>
    /\ fast_cli_state = FALSE
    /\ output = <<>>
    /\ cm_output = <<>>
    /\ cmd_out = <<>>
    /\ in_config = FALSE
    /\ exc = NoError
    /\ raised = NoError
    /\ pre = [mode |-> mode, base_prompt |-> base_prompt, fast_cli |-> fast_cli]

frame == <<writes, op, pc, args, command_string, commit_marker, expect_string,
           fast_cli_state, output, cm_output, cmd_out, in_config, exc, raised,
           pre>>

(* -------------------------------------- JuniperBase.strip_context_items() *)
MaxLines == 3

RESPONSE_RETURN == "\n"

\* Python's  s.split(sep): the texts between the separators
RECURSIVE Split(_, _)
Split(s, sep) ==
    IF \A i \in 1..Len(s) : s[i] # sep THEN <<s>>
    ELSE LET k == CHOOSE i \in 1..Len(s) :
                      s[i] = sep /\ \A j \in 1..(i - 1) : s[j] # sep
         IN  <<SubSeq(s, 1, k - 1)>> \o Split(SubSeq(s, k + 1, Len(s)), sep)

\* Python's  sep.join(list)
RECURSIVE Join(_, _)
Join(list, sep) ==
    IF list = <<>> THEN <<>>
    ELSE IF Len(list) = 1 THEN list[1]
    ELSE list[1] \o <<sep>> \o Join(Tail(list), sep)

\* the patterns  \[edit.*\]  \{master:.*\}  ... : an opening text, anything,
\* a closing character
strings_to_strip ==
    << [open |-> <<"[", "edit">>, close |-> "]"],
       [open |-> <<"{", "master", ":">>, close |-> "}"],
       [open |-> <<"{", "backup", ":">>, close |-> "}"],
       [open |-> <<"{", "line">>, close |-> "}"],
       [open |-> <<"{", "primary">>, close |-> "}"],
       [open |-> <<"{", "secondary">>, close |-> "}"] >>

\* re.search(pattern, line) for one of these patterns
SearchShape(pattern, line) ==
    \E i \in 1..Len(line) :
        /\ i + Len(pattern.open) - 1 <= Len(line)
        /\ SubSeq(line, i, i + Len(pattern.open) - 1) = pattern.open
        /\ \E j \in (i + Len(pattern.open))..Len(line) : line[j] = pattern.close

\* a sanitizer that takes the line before a final terminator for the last
StripContextItemsBeforeTerminator(s) ==
    LET response_list == Split(s, RESPONSE_RETURN)
        n == Len(response_list)
        k == IF n >= 2 /\ response_list[n] = <<>> THEN n - 1 ELSE n
    IN  IF \E m \in 1..Len(strings_to_strip) : SearchShape(strings_to_strip[m], response_list[k])
        THEN Join(SubSeq(response_list, 1, k - 1), RESPONSE_RETURN)
             \o (IF k < n THEN <<RESPONSE_RETURN>> ELSE <<>>)
        ELSE s

\* a sanitizer that looks for the annotation in every line
StripContextItemsAnyLine(s) ==
    LET response_list == Split(s, RESPONSE_RETURN)
    IN  IF \E k \in 1..Len(response_list) : \E n \in 1..Len(strings_to_strip) :
               SearchShape(strings_to_strip[n], response_list[k])
        THEN Join(SubSeq(response_list, 1, Len(response_list) - 1), RESPONSE_RETURN)
        ELSE s

\* a sanitizer that drops the last line and leaves its terminator
StripContextItemsKeepTerminator(s) ==
    LET response_list == Split(s, RESPONSE_RETURN)
        last_line == response_list[Len(response_list)]
    IN  IF \E n \in 1..Len(strings_to_strip) : SearchShape(strings_to_strip[n], last_line)
        THEN SubSeq(s, 1, Len(s) - Len(last_line))
        ELSE s

StripContextItems(s) ==
    LET response_list == Split(s, RESPONSE_RETURN)
        last_line == response_list[Len(response_list)]
    IN  IF \E n \in 1..Len(strings_to_strip) : SearchShape(strings_to_strip[n], last_line)
        THEN Join(SubSeq(response_list, 1, Len(response_list) - 1), RESPONSE_RETURN)
        ELSE s

\* the lines outputs are made of: plain ones, annotations, near misses
OutputLines ==
    { <<>>, <<"x">>, <<"set cli complete-on-space off">>,
      <<"[", "edit", "]">>, <<"[", "edit", " ", "interfaces", "]">>,
      <<"{", "master", ":", "0", "}">>, <<"{", "backup", ":", "1", "}">>,
      <<"{", "line", "}">>, <<"{", "primary", ":", "node0", "}">>,
      <<"{", "secondary", ":", "node1", "}">>,
      <<"[", "edit">>, <<"{", "master", "}">>, <<"x", " ", "[", "edit", "]", " ", "x">> }

RECURSIVE LineLists(_)
LineLists(n) ==
    IF n = 0 THEN {<<>>}
    ELSE LET shorter == LineLists(n - 1)
         IN  shorter \cup {Append(l, x) : l \in {t \in shorter : Len(t) = n - 1},
                                          x \in OutputLines}

SanitizerInputs == {Join(l, RESPONSE_RETURN) : l \in LineLists(MaxLines) \ {<<>>}}

InitSanitize ==
    /\ mode = "operational"
    /\ base_prompt = <<"admin", "@", "mx1">>
    /\ fast_cli = TRUE
    /\ NoCall
    /\ dialect = "juniper"
    /\ a_string \in SanitizerInputs
    /\ result = <<>>
    /\ session_log_fin = FALSE
    /\ PrimeIdle
    /\ OneCaller

StripContextItemsCall ==
    /\ result = <<>>
    /\ result' = <<StripContextItems(a_string)>>
    /\ UNCHANGED <<mode, base_prompt, fast_cli, frame, dialect, a_string,
                   session_log_fin, prime, shared, prompt_line, count, cur_prompt>>

NextSanitize == StripContextItemsCall

SpecSanitize == InitSanitize /\ [][NextSanitize]_vars

\* the shapes of an annotation line, as the claims name them
IsAnnotation(line) ==
    \E i \in 1..Len(line), j \in 1..Len(line) :
        \/ /\ j >= i + 2
           /\ line[i] = "[" /\ line[i + 1] = "edit" /\ line[j] = "]"
        \/ /\ j >= i + 2
           /\ line[i] = "{" /\ line[i + 1] \in {"line", "primary", "secondary"}
           /\ line[j] = "}"
        \/ /\ j >= i + 3
           /\ line[i] = "{" /\ line[i + 1] \in {"master", "backup"}
           /\ line[i + 2] = ":" /\ line[j] = "}"
\* the text after the final line terminator
LastLine(s) ==
    IF \E i \in 1..Len(s) : s[i] = "\n"
    THEN LET k == CHOOSE i \in 1..Len(s) :
                      s[i] = "\n" /\ \A j \in (i + 1)..Len(s) : s[j] # "\n"
         IN  SubSeq(s, k + 1, Len(s))
    ELSE s
Sanitized == result # <<>>
C12_Example ==
    <<"set cli complete-on-space off", "\n", "[", "edit", "]", "\n">>

\* C12 as stated: an output that ends with an annotation line and a line
\* terminator comes back without the annotation line and its terminator,
\* the terminator of the line before kept; the example comes back as
\* "set cli complete-on-space off" and a line terminator.
C12_TrailingAnnotationDropped ==
    Sanitized
    => /\ a_string = C12_Example
          => result[1] = <<"set cli complete-on-space off", "\n">>
       /\ \A l \in OutputLines :
             (IsAnnotation(l) /\ EndsWith(a_string, <<"\n">> \o l \o <<"\n">>))
             => result[1] = SubSeq(a_string, 1, Len(a_string) - Len(l) - 1)

\* C12: an output that ends with an annotation line and a line terminator
\* comes back unchanged (its last line is the empty text after the final
\* terminator), so the example comes back as it is; an output that ends
\* with the annotation line itself comes back without that line and without
\* the terminator before it.
C12_TrailingTerminatorUnchanged ==
    Sanitized
    => /\ a_string = C12_Example => result[1] = C12_Example
       /\ \A l \in OutputLines :
             /\ (IsAnnotation(l) /\ EndsWith(a_string, <<"\n">> \o l \o <<"\n">>))
                => result[1] = a_string
             /\ (IsAnnotation(l) /\ EndsWith(a_string, <<"\n">> \o l))
                => result[1] = SubSeq(a_string, 1, Len(a_string) - Len(l) - 1)
C12_Witness ==
    /\ Sanitized
    /\ a_string = C12_Example
    /\ result[1] = C12_Example

\* C13: an output whose last line, the text after the final line
\* terminator, has none of the annotation shapes comes back unchanged, also
\* when an earlier line has one.
C13_IdentityWithoutTrailingAnnotation ==
    (Sanitized /\ ~IsAnnotation(LastLine(a_string))) => result[1] = a_string
C13_Witness ==
    /\ Sanitized
    /\ a_string = <<"[", "edit", "]", "\n", "{", "master", ":", "0", "}", "\n", "x">>
    /\ result[1] = a_string

\* C14: the result is the output itself or the output without its last
\* line: the lines before the last are in the result, unchanged and in
\* order, and no more than one line is gone.
C14_AtMostLastLineRemoved ==
    Sanitized
    => \/ result[1] = a_string
       \/ result[1] \o <<"\n">> \o LastLine(a_string) = a_string
       \/ result[1] = <<>> /\ LastLine(a_string) = a_string
C14_Witness ==
    /\ Sanitized
    /\ a_string = <<"x", "\n", "[", "edit", "]", "\n", "[", "edit", " ", "interfaces", "]">>
    /\ result[1] = <<"x", "\n", "[", "edit", "]">>

(* ------------------------------------------------------------------------ *)
(* The mode state machine of the three dialects.  HP Comware and Broadcom   *)
(* ICOS hand their commands, patterns and check string to the methods of    *)
(* the base connection; their devices answer the commands they know.       *)
(* ------------------------------------------------------------------------ *)
Dialects == {"juniper", "hp_comware", "broadcom_icos"}

\* HPComwareBase
HPConfigCommand == <<"system-view">>
HPConfigPattern == <<>>
HPExitConfig == <<"return">>
\* an exit pattern the Comware prompt never shows
HPExitPatternHash == <<"#">>
HPExitPattern == <<">">>
HPCheckString == <<"]">>
\* BroadcomIcosSSH
IcosCheckString == <<")", "#">>
IcosConfigCommand == <<"configure">>
IcosConfigPattern == <<>>
IcosExitConfig == <<"exit">>
\* the exit pattern of the Cisco base class, which Broadcom does not override
CiscoExitPattern == <<"#">>

DialectCheckString ==
    CASE dialect = "juniper" -> CheckString
      [] dialect = "hp_comware" -> HPCheckString
      [] dialect = "broadcom_icos" -> IcosCheckString
DialectConfigCommand ==
    CASE dialect = "juniper" -> ConfigCommand
      [] dialect = "hp_comware" -> HPConfigCommand
      [] dialect = "broadcom_icos" -> IcosConfigCommand
DialectConfigPattern ==
    CASE dialect = "juniper" -> ConfigPattern
      [] dialect = "hp_comware" -> HPConfigPattern
      [] dialect = "broadcom_icos" -> IcosConfigPattern
DialectExitConfig ==
    CASE dialect = "juniper" -> ExitConfig
      [] dialect = "hp_comware" -> HPExitConfig
      [] dialect = "broadcom_icos" -> IcosExitConfig
DialectExitPattern ==
    CASE dialect = "hp_comware" -> HPExitPattern
      [] dialect = "broadcom_icos" -> CiscoExitPattern
      [] OTHER -> <<>>

\* the host names of the devices, by dialect
Hostnames(d) ==
    CASE d = "juniper" -> BasePrompts
      [] d = "hp_comware" -> {<<"HP">>, <<"HP", "-", "5500">>}
      [] d = "broadcom_icos" -> {<<"Routing">>, <<"sw", "-", "1">>}

\* the prompt of a Comware or ICOS device named h in mode m: <HP> and [HP]
\* on Comware; (Routing) >, (Routing) # and (Routing) (Config)# on ICOS
HostPrompt(h, m) ==
    IF dialect = "hp_comware"
    THEN IF m = "config" THEN <<"[">> \o h \o <<"]">>
         ELSE <<"<">> \o h \o <<">">>
    ELSE IF m = "config"
         THEN <<"(">> \o h \o <<")", " ", "(", "Config", ")", "#">>
         ELSE IF m = "user" THEN <<"(">> \o h \o <<")", " ", ">">>
         ELSE <<"(">> \o h \o <<")", " ", "#">>

\* the prompt of the device in mode m
PromptOf(m) ==
    IF dialect = "juniper" THEN Prompt(m) ELSE HostPrompt(dev.host, m)

\* what a Comware or ICOS device does with a command line in mode m
DeviceAnswer(m, line) ==
    LET enters == IF dialect = "hp_comware" THEN {<<"system-view", "\n">>}
                  ELSE {<<"configure", "\n">>}
        leaves == IF dialect = "hp_comware"
                  THEN {<<"return", "\n">>, <<"quit", "\n">>}
                  ELSE {<<"exit", "\n">>, <<"end", "\n">>}
        after == IF m = "operational" /\ line \in enters THEN "config"
                 ELSE IF m = "config" /\ line \in leaves THEN "operational"
                 ELSE m
        known == \/ m = "operational" /\ line \in enters
                 \/ m = "config" /\ line \in leaves
    IN  [text |-> line
                  \o (IF known THEN <<>> ELSE <<"% Unrecognized command", "\n">>)
                  \o PromptOf(after),
         mode |-> after]

\* commands a caller passes: the default and one the device does not know
EnterCommands == {DialectConfigCommand, <<"bogus">>}
ExitCommands == {DialectExitConfig, <<"bogus">>}

\* a fresh call frame of a method that is given a command
EnterCmd(name, cmd, first) ==
    /\ pc = "done"
    /\ op' = name
    /\ pc' = first
    /\ command_string' = cmd
    /\ writes' = <<>>
    /\ args' = NoArgs
    /\ commit_marker' = <<>>
    /\ expect_string' = <<>>
    /\ fast_cli_state' = FALSE
    /\ output' = <<>>
    /\ cm_output' = <<>>
    /\ cmd_out' = <<>>
    /\ in_config' = FALSE
    /\ exc' = NoError
    /\ raised' = NoError
    /\ pre' = [mode |-> mode, base_prompt |-> base_prompt, fast_cli |-> fast_cli]
    /\ UNCHANGED <<mode, base_prompt, fast_cli, aux>>

\* variables the methods of the mode state machine leave alone
idle_locals == <<args, commit_marker, expect_string, fast_cli_state, cm_output, exc>>

\* check_config_mode(check_string) of the base connection on any dialect
BaseCheckStep ==
    /\ writes' = Append(writes, RETURN)
    /\ in_config' = Contains(RETURN \o PromptOf(mode), DialectCheckString)

(* ------------------------------- check_config_mode() of the three dialects *)
CheckConfigModeCall == Enter("check_config_mode", NoArgs, "base_check")

BaseCheck ==
    /\ pc = "base_check"
    /\ BaseCheckStep
    /\ pc' = "done"
    /\ UNCHANGED <<mode, base_prompt, fast_cli, op, command_string, output,
                   cmd_out, raised, pre, idle_locals, aux>>

(* --------------------- config_mode() of HPComwareBase and BroadcomIcosSSH *)
BaseConfigModeCall ==
    /\ dialect # "juniper"
    /\ \E cmd \in EnterCommands : EnterCmd("config_mode", cmd, "base_cm_check")

BaseConfigModeCheck ==
    /\ pc = "base_cm_check"
    /\ BaseCheckStep
    /\ pc' = (IF in_config' THEN "done" ELSE "base_cm_enter")
    /\ UNCHANGED <<mode, base_prompt, fast_cli, op, command_string, output,
                   cmd_out, raised, pre, idle_locals, aux>>

BaseConfigModeEnter ==
    /\ pc = "base_cm_enter"
    /\ writes' = Append(writes, NormalizeCmd(command_string))
    /\ LET r == DeviceAnswer(mode, NormalizeCmd(command_string))
       IN  /\ mode' = r.mode
           /\ IF ReSearch(DialectConfigPattern, <<>>)
              THEN /\ pc' = "base_cm_recheck"
                   /\ UNCHANGED <<output, raised>>
              ELSE IF ReSearch(DialectConfigPattern, r.text)
              THEN /\ output' = r.text
                   /\ pc' = "base_cm_recheck"
                   /\ UNCHANGED raised
              ELSE Raise(ReadTimeout) /\ UNCHANGED output
    /\ UNCHANGED <<base_prompt, fast_cli, op, command_string, cmd_out,
                   in_config, pre, idle_locals, aux>>

BaseConfigModeRecheck ==
    /\ pc = "base_cm_recheck"
    /\ BaseCheckStep
    /\ IF in_config'
       THEN pc' = "done" /\ UNCHANGED raised
       ELSE Raise(ValueError(EnterFailedMsg))
    /\ UNCHANGED <<mode, base_prompt, fast_cli, op, command_string, output,
                   cmd_out, pre, idle_locals, aux>>

(* ---------------- exit_config_mode() of HPComwareBase and BroadcomIcosSSH *)
BaseExitConfigModeCall ==
    /\ dialect # "juniper"
    /\ \E cmd \in ExitCommands : EnterCmd("exit_config_mode", cmd, "base_exit_check")

BaseExitCheck ==
    /\ pc = "base_exit_check"
    /\ BaseCheckStep
    /\ pc' = (IF in_config' THEN "base_exit_send" ELSE "done")
    /\ UNCHANGED <<mode, base_prompt, fast_cli, op, command_string, output,
                   cmd_out, raised, pre, idle_locals, aux>>

BaseExitSend ==
    /\ pc = "base_exit_send"
    /\ writes' = Append(writes, NormalizeCmd(command_string))
    /\ LET r == DeviceAnswer(mode, NormalizeCmd(command_string))
       IN  /\ mode' = r.mode
           /\ IF ReSearch(DialectExitPattern, r.text)
              THEN /\ output' = r.text
                   /\ pc' = "base_exit_recheck"
                   /\ UNCHANGED raised
              ELSE Raise(ReadTimeout) /\ UNCHANGED output
    /\ UNCHANGED <<base_prompt, fast_cli, op, command_string, cmd_out,
                   in_config, pre, idle_locals, aux>>

BaseExitRecheck ==
    /\ pc = "base_exit_recheck"
    /\ BaseCheckStep
    /\ IF in_config'
       THEN Raise(ValueError(ExitFailedMsg))
       ELSE pc' = "done" /\ UNCHANGED raised
    /\ UNCHANGED <<mode, base_prompt, fast_cli, op, command_string, output,
                   cmd_out, pre, idle_locals, aux>>

(* ----------------------------------- the enable methods of HPComwareBase *)
\* an enable() with an empty body, as on Juniper
HPEnableNoOp ==
    /\ dialect = "hp_comware"
    /\ \E cmd \in EnterCommands : EnterCmd("enable", cmd, "done")

\* enable(cmd): return self.config_mode(config_command=cmd)
HPEnableCall ==
    /\ dialect = "hp_comware"
    /\ \E cmd \in EnterCommands : EnterCmd("enable", cmd, "base_cm_check")

\* exit_enable_mode(exit_command): return self.exit_config_mode(exit_config=exit_command)
HPExitEnableModeCall ==
    /\ dialect = "hp_comware"
    /\ \E cmd \in ExitCommands : EnterCmd("exit_enable_mode", cmd, "base_exit_check")

\* check_enable_mode(check_string): return self.check_config_mode(check_string=check_string)
HPCheckEnableModeCall ==
    /\ dialect = "hp_comware"
    /\ Enter("check_enable_mode", NoArgs, "base_check")

(* ------------------------------------- the enable methods of JuniperBase *)
\* each body is `pass`: the call returns at once
JuniperCheckEnableModeCall ==
    /\ dialect = "juniper"
    /\ Enter("check_enable_mode", NoArgs, "done")

JuniperEnableCall ==
    /\ dialect = "juniper"
    /\ Enter("enable", NoArgs, "done")

JuniperExitEnableModeCall ==
    /\ dialect = "juniper"
    /\ Enter("exit_enable_mode", NoArgs, "done")

(* ------------------------------------------------- JuniperBase.cleanup() *)
\* the parameters check_config_mode() of JuniperBase accepts by keyword
CheckConfigModeParams == {"check_string"}
\* the keyword cleanup() passes to it
CleanupKeyword == "pattern"
TypeError ==
    [type |-> "TypeError",
     msg |-> <<"check_config_mode() got an unexpected keyword argument 'pattern'">>]
CleanupCommand == <<"exit">>

JuniperCleanupCall ==
    /\ dialect = "juniper"
    /\ Enter("cleanup", NoArgs, "cleanup_try")

\* a cleanup() without the try statement: the error reaches the caller
CleanupTryNoExcept ==
    /\ pc = "cleanup_try"
    /\ CleanupKeyword \notin CheckConfigModeParams
    /\ Raise(TypeError)
    /\ UNCHANGED <<mode, base_prompt, fast_cli, writes, op, command_string,
                   output, cmd_out, in_config, pre, idle_locals, aux>>

\* try: if self.check_config_mode(pattern=""): self.exit_config_mode()
\* except Exception: pass
\* The keyword is not a parameter of check_config_mode(), so the call raises
\* TypeError before it writes anything, and the except clause swallows it.
CleanupTry ==
    /\ pc = "cleanup_try"
    /\ CleanupKeyword \notin CheckConfigModeParams
    /\ exc' = TypeError
    /\ pc' = "cleanup_exit"
    /\ UNCHANGED <<mode, base_prompt, fast_cli, writes, op, args,
                   command_string, commit_marker, expect_string,
                   fast_cli_state, output, cm_output, cmd_out, in_config,
                   raised, pre, aux>>

\* self._session_log_fin = True; self.write_channel(command + self.RETURN)
\* The answer of the device is never read; a device in configuration mode
\* leaves it or asks about uncommitted changes and stays.
CleanupExit ==
    /\ pc = "cleanup_exit"
    /\ session_log_fin' = TRUE
    /\ writes' = Append(writes, CleanupCommand \o RETURN)
    /\ mode' \in (IF mode = "config" THEN {"operational", "config"} ELSE {mode})
    /\ pc' = "closed"
    /\ UNCHANGED <<base_prompt, fast_cli, op, args, command_string,
                   commit_marker, expect_string, fast_cli_state, output,
                   cm_output, cmd_out, in_config, exc, raised, pre, dialect,
                   a_string, result, prime, shared, prompt_line, count, cur_prompt>>

(* ------------------------------------ the mode methods of the three dialects *)
InitModes ==
    /\ mode = "operational"
    /\ dialect \in Dialects
    /\ base_prompt \in Hostnames(dialect)
    /\ fast_cli = TRUE
    /\ NoCall
    /\ a_string = <<>>
    /\ result = <<>>
    /\ session_log_fin = FALSE
    /\ PrimeIdle
    /\ OneCaller

JuniperConfigModeCall == dialect = "juniper" /\ ConfigModeCall
JuniperExitConfigModeCall == dialect = "juniper" /\ ExitConfigModeCall

NextModes ==
    \/ CheckConfigModeCall
    \/ BaseCheck
    \/ BaseConfigModeCall
    \/ BaseConfigModeCheck
    \/ BaseConfigModeEnter
    \/ BaseConfigModeRecheck
    \/ BaseExitConfigModeCall
    \/ BaseExitCheck
    \/ BaseExitSend
    \/ BaseExitRecheck
    \/ HPEnableCall
    \/ HPExitEnableModeCall
    \/ HPCheckEnableModeCall
    \/ JuniperConfigModeCall
    \/ ConfigModeCheck
    \/ ConfigModeEnter
    \/ ConfigModeRecheck
    \/ JuniperExitConfigModeCall
    \/ ExitCheck
    \/ ExitSend
    \/ ExitConfirm
    \/ ExitRecheck
    \/ JuniperCheckEnableModeCall
    \/ JuniperEnableCall
    \/ JuniperExitEnableModeCall
    \/ JuniperCleanupCall
    \/ CleanupTry
    \/ CleanupExit

SpecModes == InitModes /\ [][NextModes]_vars

(* ------------------------------------------------------------------------ *)
(* Claims about the mode methods                                            *)
(* ------------------------------------------------------------------------ *)
\* the call ran with the dialect's default command
DefaultExit == dialect # "juniper" => command_string = DialectExitConfig

\* a session that has been taken into configuration mode and out again by a
\* device that honoured the exit command
EnteredThenExited ==
    /\ op = "exit_config_mode"
    /\ pc = "done"
    /\ pre.mode = "config"
    /\ DefaultExit
    /\ mode = "operational"

\* C11: on Juniper, HP Comware and Broadcom ICOS, with the default commands,
\* patterns and check string and a device that honours them, a session that
\* entered configuration mode and then exited it returns without an error
\* and check_config_mode() is false on it.
C11_EnterThenExitLeavesConfigMode ==
    EnteredThenExited
    => /\ raised = NoError
       /\ in_config = FALSE
       /\ ~Contains(RETURN \o PromptOf(mode), DialectCheckString)

C11_Witness ==
    /\ EnteredThenExited
    /\ dialect = "hp_comware"
    /\ writes = <<RETURN, <<"return", "\n">>, RETURN>>
    /\ raised = NoError

\* what config_mode(config_command=cmd) of the base connection does to a
\* session whose device is in mode m
ConfigModeEffect(m, cmd) ==
    IF m = "config"
    THEN [writes |-> <<RETURN>>, mode |-> m, raised |-> NoError]
    ELSE LET r == DeviceAnswer(m, cmd \o RETURN)
         IN  [writes |-> <<RETURN, cmd \o RETURN, RETURN>>,
              mode |-> r.mode,
              raised |-> IF r.mode = "config" THEN NoError
                         ELSE ValueError(EnterFailedMsg)]

\* what exit_config_mode(exit_config=cmd) does to it
ExitConfigModeEffect(m, cmd) ==
    IF m # "config"
    THEN [writes |-> <<RETURN>>, mode |-> m, raised |-> NoError]
    ELSE LET r == DeviceAnswer(m, cmd \o RETURN)
         IN  IF ReSearch(DialectExitPattern, r.text)
             THEN [writes |-> <<RETURN, cmd \o RETURN, RETURN>>,
                   mode |-> r.mode,
                   raised |-> IF r.mode = "config" THEN ValueError(ExitFailedMsg)
                              ELSE NoError]
             ELSE [writes |-> <<RETURN, cmd \o RETURN>>,
                   mode |-> r.mode,
                   raised |-> ReadTimeout]

\* what the finished call did
Effect == [writes |-> writes, mode |-> mode, raised |-> raised]

\* C18: on HP Comware a finished enable(cmd) and a finished config_mode(cmd)
\* both have the channel effect and result of entering configuration mode
\* with cmd, a finished exit_enable_mode(cmd) and exit_config_mode(cmd) both
\* have that of leaving it with cmd, and check_enable_mode() and
\* check_config_mode() both write one line feed and return whether the
\* prompt holds the check string; on Juniper enable(), check_enable_mode()
\* and exit_enable_mode() return at once, write nothing and change no
\* session state.
C18_EnableAliases ==
    /\ (dialect = "hp_comware" /\ pc = "done")
       => /\ op \in {"enable", "config_mode"}
             => Effect = ConfigModeEffect(pre.mode, command_string)
          /\ op \in {"exit_enable_mode", "exit_config_mode"}
             => Effect = ExitConfigModeEffect(pre.mode, command_string)
          /\ op \in {"check_enable_mode", "check_config_mode"}
             => /\ Effect = [writes |-> <<RETURN>>, mode |-> pre.mode,
                             raised |-> NoError]
                /\ in_config = Contains(PromptOf(mode), HPCheckString)
    /\ (dialect = "juniper"
        /\ op \in {"enable", "check_enable_mode", "exit_enable_mode"})
       => /\ pc = "done"
          /\ writes = <<>>
          /\ output = <<>>
          /\ raised = NoError
          /\ SessionAsBefore

C18_Witness ==
    /\ dialect = "hp_comware"
    /\ op = "enable"
    /\ pc = "done"
    /\ pre.mode = "operational"
    /\ mode = "config"
    /\ writes = <<RETURN, <<"system-view", "\n">>, RETURN>>

\* C19: cleanup() of Juniper never returns an error to its caller and never
\* returns before its last step; when it has finished, the exit command is
\* its last write and is written exactly once.
C19_CleanupAlwaysWritesExit ==
    op = "cleanup"
    => /\ raised = NoError
       /\ pc \in {"cleanup_try", "cleanup_exit", "closed"}
       /\ pc = "closed"
          => /\ writes # <<>>
             /\ writes[Len(writes)] = CleanupCommand \o RETURN
             /\ Cardinality({i \in 1..Len(writes) :
                                writes[i] = CleanupCommand \o RETURN}) = 1

C19_Witness ==
    /\ op = "cleanup"
    /\ pc = "closed"
    /\ pre.mode = "config"
    /\ exc = TypeError
    /\ writes = <<CleanupCommand \o RETURN>>

(* ------------------------------------------------------------------------ *)
(* Session priming of HP Comware and Broadcom ICOS.  The device answers     *)
(* every write before the session's next step (the sleeps of the code give  *)
(* it the time); a Comware device may hold its prompt back behind a banner  *)
(* that wants line feeds, and a mute device answers nothing.               *)
(* ------------------------------------------------------------------------ *)
MaxBanner == 6
MaxPolls == 3
\* while i <= 4
PrimingLineFeeds == 4
LINE_FEED == <<"\n">>

Banner == <<"Press Y or ENTER to continue, N to exit.", "\n">>
SessionPrimingError ==
    [type |-> "SessionPrimingError", msg |-> <<"Timed out waiting for data">>]
PromptNotFound == ValueError(<<"Router prompt not found">>)
EnableFailed == ValueError(<<"Failed to enter enable mode.">>)

\* what the device named dev.host does with a line while it is primed
PrimeAnswer(line) ==
    IF dev.mute
    THEN [text |-> <<>>, need |-> dev.need, mode |-> mode]
    ELSE IF dev.need > 0
    THEN IF line = LINE_FEED
         THEN [text |-> IF dev.need = 1
                        THEN LINE_FEED \o HostPrompt(dev.host, mode)
                        ELSE Banner,
               need |-> dev.need - 1,
               mode |-> mode]
         ELSE [text |-> Banner, need |-> dev.need, mode |-> mode]
    ELSE IF line = LINE_FEED
    THEN [text |-> LINE_FEED \o HostPrompt(dev.host, mode),
          need |-> 0, mode |-> mode]
    ELSE IF dialect = "broadcom_icos" /\ mode = "user" /\ line = <<"enable", "\n">>
    THEN [text |-> line \o HostPrompt(dev.host, "operational"),
          need |-> 0, mode |-> "operational"]
    ELSE [text |-> line \o HostPrompt(dev.host, mode), need |-> 0, mode |-> mode]

\* write_channel(line), and what it does to the device
WriteChannel(line) ==
    LET r == PrimeAnswer(line)
    IN  /\ writes' = Append(writes, line)
        /\ dev' = [dev EXCEPT !.need = r.need]
        /\ mode' = r.mode

\* the last line of a text
PromptLineOf(text) ==
    LET lines == Split(text, "\n") IN lines[Len(lines)]

\* str.strip() of a text: the blanks and line ends at its ends go
Whitespace == {" ", "\n"}
RECURSIVE Strip(_)
Strip(line) ==
    IF line = <<>> THEN <<>>
    ELSE IF Head(line) \in Whitespace THEN Strip(Tail(line))
    ELSE IF line[Len(line)] \in Whitespace
    THEN Strip(SubSeq(line, 1, Len(line) - 1))
    ELSE line

\* variables session priming leaves alone
unprimed == <<fast_cli, op, args, command_string, commit_marker,
              expect_string, fast_cli_state, output, cm_output, cmd_out,
              in_config, pre, dialect, a_string, result, session_log_fin,
              shared, prompt_line, count, cur_prompt>>

(* ------------------------------------------ _test_channel_read(pattern) *)
\* pattern r"[>\]]" of Comware: one of the two characters; the default
\* pattern "" of ICOS: any data at all
PromptShape == {">", "]"}
WaitFound(data) ==
    IF dialect = "hp_comware"
    THEN \E k \in 1..Len(data) : data[k] \in PromptShape
    ELSE data # <<>>

\* one poll of the wait: read what has arrived; done when the pattern is in
\* the text read so far; a poll that has read nothing at all sends a line
\* feed; the wait fails when its polls are used up
TestChannelReadPoll(data) ==
    /\ new_data' = data
    /\ polls' = polls + 1
    /\ IF data = <<>>
       THEN WriteChannel(LINE_FEED) /\ buffer' = PrimeAnswer(LINE_FEED).text
       ELSE buffer' = <<>> /\ UNCHANGED <<writes, dev, mode>>

(* ------------------------------------- HPComwareBase.session_preparation *)
HPSessionPreparationCall ==
    /\ dialect = "hp_comware"
    /\ op = "none"
    /\ Enter("session_preparation", NoArgs, "prime_begin")

\* delay_factor = ...; i = 1
HPPrimeBegin ==
    /\ pc = "prime_begin"
    /\ loop_i' = 1
    /\ pc' = "prime_lf"
    /\ UNCHANGED <<mode, base_prompt, writes, raised, buffer, dev, steps,
                   polls, new_data,
                   exc, unprimed>>

\* a loop that is left after its first line feed
HPPrimeLineFeedOnce ==
    /\ pc = "prime_lf"
    /\ WriteChannel(LINE_FEED)
    /\ buffer' = buffer \o PrimeAnswer(LINE_FEED).text
    /\ steps' = Append(steps, "write_channel")
    /\ loop_i' = loop_i + 1
    /\ pc' = "prime_clear"
    /\ UNCHANGED <<base_prompt, raised, polls, new_data,
                   exc, unprimed>>

\* while i <= 4: sleep; write_channel("\n"); i += 1
HPPrimeLineFeed ==
    /\ pc = "prime_lf"
    /\ loop_i <= PrimingLineFeeds
    /\ WriteChannel(LINE_FEED)
    /\ buffer' = buffer \o PrimeAnswer(LINE_FEED).text
    /\ steps' = Append(steps, "write_channel")
    /\ loop_i' = loop_i + 1
    /\ pc' = (IF loop_i' <= PrimingLineFeeds THEN "prime_lf" ELSE "prime_clear")
    /\ UNCHANGED <<base_prompt, raised, polls, new_data,
                   exc, unprimed>>

\* sleep; clear_buffer()
HPPrimeClear ==
    /\ pc = "prime_clear"
    /\ buffer' = <<>>
    /\ steps' = Append(steps, "clear_buffer")
    /\ pc' = "prime_wait_call"
    /\ UNCHANGED <<mode, base_prompt, writes, raised, dev, loop_i, polls,
                   new_data,
                   exc, unprimed>>

(* ----------------------------------- BroadcomIcosSSH.session_preparation *)
IcosSessionPreparationCall ==
    /\ dialect = "broadcom_icos"
    /\ op = "none"
    /\ Enter("session_preparation", NoArgs, "prime_wait_call")

(* ------------------------------------------- the steps the two dialects share *)
\* self._test_channel_read(...): the call
PrimeWaitCall ==
    /\ pc = "prime_wait_call"
    /\ steps' = Append(steps, "_test_channel_read")
    /\ pc' = "prime_wait"
    /\ UNCHANGED <<mode, base_prompt, writes, raised, buffer, dev, loop_i,
                   polls, new_data,
                   exc, unprimed>>

\* _test_channel_read() of the base connection: it polls until it has found
\* its pattern or used up its polls, and then returns or raises
TestChannelRead ==
    /\ pc = "prime_wait"
    /\ LET data == new_data \o buffer
       IN  IF WaitFound(data) \/ polls >= MaxPolls
           THEN /\ new_data' = data
                /\ buffer' = <<>>
                /\ exc' = (IF WaitFound(data) THEN NoError ELSE SessionPrimingError)
                /\ pc' = "prime_wait_end"
                /\ UNCHANGED <<writes, dev, mode, polls>>
           ELSE /\ TestChannelReadPoll(data)
                /\ pc' = "prime_wait"
                /\ UNCHANGED exc
    /\ UNCHANGED <<base_prompt, raised, steps, loop_i, unprimed>>

\* a priming that goes on after a wait that failed
PrimeWaitSwallow ==
    /\ pc = "prime_wait_end"
    /\ exc' = NoError
    /\ pc' = "prime_prompt"
    /\ UNCHANGED <<mode, base_prompt, writes, raised, buffer, dev, steps,
                   loop_i, polls, new_data, unprimed>>

\* the statement after the wait runs when the wait has returned; nothing in
\* session_preparation catches the error of a wait that failed
PrimeWaitReturn ==
    /\ pc = "prime_wait_end"
    /\ exc' = NoError
    /\ IF exc = NoError
       THEN pc' = "prime_prompt" /\ UNCHANGED raised
       ELSE Raise(exc)
    /\ UNCHANGED <<mode, base_prompt, writes, buffer, dev, steps, loop_i,
                   polls, new_data, unprimed>>

\* the prompt terminators set_base_prompt() is called with
Terminators ==
    IF dialect = "hp_comware" THEN {">", "]"} ELSE {"#", ">"}

\* set_base_prompt() of the base connection: a line feed, the prompt line
\* read back, its last character checked and cut off
BaseSetBasePrompt(line) ==
    SubSeq(line, 1, Len(line) - 1)

\* set_base_prompt() of HPComwareBase: prompt = prompt[1:]; prompt.strip()
HPSetBasePrompt(line) ==
    LET prompt == BaseSetBasePrompt(line)
    IN  Strip(SubSeq(prompt, 2, Len(prompt)))

\* set_base_prompt() on the prompt line read back: without a terminator at
\* its end it raises, else the base prompt of the dialect is stored
StoreBasePrompt(line, next) ==
    IF line = <<>> \/ line[Len(line)] \notin Terminators
    THEN Raise(PromptNotFound) /\ UNCHANGED base_prompt
    ELSE /\ base_prompt' = (IF dialect = "hp_comware"
                            THEN HPSetBasePrompt(line)
                            ELSE BaseSetBasePrompt(line))
         /\ pc' = next
         /\ UNCHANGED raised

SetBasePromptStep(next) ==
    /\ WriteChannel(LINE_FEED)
    /\ buffer' = <<>>
    /\ steps' = Append(steps, "set_base_prompt")
    /\ StoreBasePrompt(Strip(PromptLineOf(PrimeAnswer(LINE_FEED).text)), next)

\* self.set_base_prompt()
PrimePrompt ==
    /\ pc = "prime_prompt"
    /\ SetBasePromptStep(IF dialect = "hp_comware" THEN "prime_paging"
                         ELSE "prime_enable")
    /\ UNCHANGED <<loop_i, polls, new_data,
                   exc, unprimed>>

(* -------------------------- the steps of BroadcomIcosSSH before the paging *)
EnableCommand == <<"enable">>
\* enable() of the Cisco base class: nothing but the check when the prompt
\* shows the privileged mode; else the enable command and a second check
IcosPrimeEnable ==
    /\ pc = "prime_enable"
    /\ steps' = Append(steps, "enable")
    /\ buffer' = <<>>
    /\ IF Contains(HostPrompt(dev.host, mode), <<"#">>)
       THEN /\ writes' = Append(writes, LINE_FEED)
            /\ pc' = "prime_prompt2"
            /\ UNCHANGED <<mode, dev, raised>>
       ELSE LET r == PrimeAnswer(NormalizeCmd(EnableCommand))
            IN  /\ writes' = writes \o <<LINE_FEED, NormalizeCmd(EnableCommand),
                                         LINE_FEED>>
                /\ mode' = r.mode
                /\ UNCHANGED dev
                /\ IF Contains(HostPrompt(dev.host, r.mode), <<"#">>)
                   THEN pc' = "prime_prompt2" /\ UNCHANGED raised
                   ELSE Raise(EnableFailed)
    /\ UNCHANGED <<base_prompt, loop_i, polls, new_data,
                   exc, unprimed>>

\* self.set_base_prompt(), a second time
IcosPrimePromptAgain ==
    /\ pc = "prime_prompt2"
    /\ SetBasePromptStep("prime_width")
    /\ UNCHANGED <<loop_i, polls, new_data,
                   exc, unprimed>>

\* self.set_terminal_width(): without a command the base method returns at once
IcosPrimeWidth ==
    /\ pc = "prime_width"
    /\ steps' = Append(steps, "set_terminal_width")
    /\ pc' = "prime_paging"
    /\ UNCHANGED <<mode, base_prompt, writes, raised, buffer, dev, loop_i,
                   polls, new_data,
                   exc, unprimed>>

(* ------------------------------------------------ paging and the last flush *)
\* command = self.RETURN + "screen-length disable" on Comware; the default
\* command of disable_paging() on ICOS
PagingCommand ==
    IF dialect = "hp_comware" THEN RETURN \o <<"screen-length disable">>
    ELSE <<"terminal length 0">>

\* self.disable_paging(...): the command is written and its echo read; what
\* the device sent after the echo stays in the buffer
PrimePaging ==
    /\ pc = "prime_paging"
    /\ steps' = Append(steps, "disable_paging")
    /\ LET line == NormalizeCmd(PagingCommand)
           r == PrimeAnswer(line)
       IN  /\ WriteChannel(line)
           /\ IF Contains(r.text, line)
              THEN /\ buffer' = buffer \o SubSeq(r.text, Len(line) + 1, Len(r.text))
                   /\ pc' = "prime_flush"
                   /\ UNCHANGED raised
              ELSE /\ buffer' = <<>>
                   /\ Raise(ReadTimeout)
    /\ UNCHANGED <<base_prompt, loop_i, polls, new_data,
                   exc, unprimed>>

\* a priming that returns without its last clear_buffer()
PrimeFlushNothing ==
    /\ pc = "prime_flush"
    /\ steps' = Append(steps, "clear_buffer")
    /\ pc' = "done"
    /\ UNCHANGED <<mode, base_prompt, writes, raised, buffer, dev, loop_i,
                   polls, new_data,
                   exc, unprimed>>

\* sleep; self.clear_buffer()
PrimeFlush ==
    /\ pc = "prime_flush"
    /\ buffer' = <<>>
    /\ steps' = Append(steps, "clear_buffer")
    /\ pc' = "done"
    /\ UNCHANGED <<mode, base_prompt, writes, raised, dev, loop_i, polls,
                   new_data,
                   exc, unprimed>>

(* ------------------------------------------------------- the priming runs *)
\* a session that has just been connected: the device has sent its banner or
\* its prompt, or nothing if it is mute; no base prompt is set
InitPrime ==
    /\ dialect \in {"hp_comware", "broadcom_icos"}
    /\ mode = (IF dialect = "hp_comware" THEN "operational" ELSE "user")
    /\ base_prompt = <<>>
    /\ fast_cli = TRUE
    /\ NoCall
    /\ a_string = <<>>
    /\ result = <<>>
    /\ session_log_fin = FALSE
    /\ \E h \in Hostnames(dialect), mute \in BOOLEAN,
          n \in (IF dialect = "hp_comware" THEN 0..MaxBanner ELSE {0}) :
          /\ dev = [host |-> h, banner |-> n, need |-> n, mute |-> mute]
          /\ buffer = (IF mute THEN <<>>
                       ELSE IF n > 0 THEN Banner
                       ELSE HostPrompt(h, mode))
    /\ steps = <<>>
    /\ loop_i = 0
    /\ polls = 0
    /\ new_data = <<>>
    /\ prompt_line = <<>>
    /\ count = 0
    /\ cur_prompt = <<>>
    /\ OneCaller

NextPrime ==
    \/ HPSessionPreparationCall
    \/ HPPrimeBegin
    \/ HPPrimeLineFeed
    \/ HPPrimeClear
    \/ IcosSessionPreparationCall
    \/ PrimeWaitCall
    \/ TestChannelRead
    \/ PrimeWaitReturn
    \/ PrimePrompt
    \/ IcosPrimeEnable
    \/ IcosPrimePromptAgain
    \/ IcosPrimeWidth
    \/ PrimePaging
    \/ PrimeFlush

SpecPrime == InitPrime /\ [][NextPrime]_vars

(* ------------------------------------------------------------------------ *)
(* Claims about session priming                                             *)
(* ------------------------------------------------------------------------ *)
Priming == op = "session_preparation"

IsPrefix(a, b) == Len(a) <= Len(b) /\ a = SubSeq(b, 1, Len(a))

\* the line feeds among the writes
LineFeedsWritten == Cardinality({k \in 1..Len(writes) : writes[k] = LINE_FEED})

OnlyLineFeedsWritten == \A k \in 1..Len(writes) : writes[k] = LINE_FEED

\* the steps of a whole Comware priming
HPSteps ==
    <<"write_channel", "write_channel", "write_channel", "write_channel",
      "clear_buffer", "_test_channel_read", "set_base_prompt",
      "disable_paging", "clear_buffer">>

\* C15: HP Comware priming calls, in this order and no other, write_channel
\* with a bare line feed four times, clear_buffer, the wait for '>' or ']',
\* set_base_prompt, disable_paging and clear_buffer; when the buffer is
\* discarded the four line feeds are all that was written, up to the end of
\* the wait nothing but line feeds is written, and a priming that has
\* returned has stored the base prompt, has written the paging command once,
\* as its last write, and has left the buffer empty.
C15_HPPrimingOrder ==
    (Priming /\ dialect = "hp_comware")
    => /\ IsPrefix(steps, HPSteps)
       /\ Len(steps) <= 6 => OnlyLineFeedsWritten
       /\ Len(steps) <= 4 => Len(writes) = Len(steps)
       /\ Len(steps) = 5 => Len(writes) = PrimingLineFeeds
       /\ Len(steps) <= 6 => base_prompt = <<>>
       /\ (pc = "done" /\ raised = NoError)
          => /\ steps = HPSteps
             /\ buffer = <<>>
             /\ base_prompt = dev.host
             /\ writes[Len(writes)] = NormalizeCmd(PagingCommand)
             /\ Cardinality({k \in 1..Len(writes) : ~(writes[k] = LINE_FEED)}) = 1

C15_Witness ==
    /\ Priming
    /\ dialect = "hp_comware"
    /\ pc = "done"
    /\ raised = NoError
    /\ dev.banner = 0
    /\ steps = HPSteps
    /\ buffer = <<>>

WaitFailed ==
    /\ Priming
    /\ \E k \in 1..Len(steps) : steps[k] = "_test_channel_read"
    /\ pc # "prime_wait"
    /\ ~WaitFound(new_data)

\* C17: when the wait for the prompt shape has failed in the priming of HP
\* Comware or Broadcom ICOS, the next thing priming does is to end with the
\* session-priming error: the wait is its last step, the base prompt is not
\* set and nothing but line feeds has been written.
C17_FailedWaitEndsPriming ==
    WaitFailed
    => /\ pc \in {"prime_wait_end", "done"}
       /\ pc = "prime_wait_end" => exc = SessionPrimingError
       /\ pc = "done" => raised = SessionPrimingError
       /\ steps[Len(steps)] = "_test_channel_read"
       /\ base_prompt = <<>>
       /\ OnlyLineFeedsWritten

C17_Witness ==
    /\ WaitFailed
    /\ dialect = "broadcom_icos"
    /\ pc = "done"
    /\ raised = SessionPrimingError
    /\ writes # <<>>

(* ------------------------------------------------------------------------ *)
(* Two callers of commit() on one Juniper session.  Each has built its     *)
(* command and found the session in configuration mode; what follows is    *)
(* the try statement of commit() and the check of the marker, statement by *)
(* statement.  Nothing in these statements takes or waits for a lock, so   *)
(* any statement of one caller may run between two of the other.           *)
(* ------------------------------------------------------------------------ *)
Callers == {"A", "B"}

\* the commands the callers have built
CallerCommands == {<<"commit">>, <<"commit check">>}
MarkerOf(cmd) ==
    IF cmd = <<"commit check">> THEN CommitMarkerCheck ELSE CommitMarkerPlain

\* the answer of a device that carries out every commit
CommitAnswer(line) ==
    line \o MarkerOf(SubSeq(line, 1, Len(line) - 1)) \o <<"\n">> \o Prompt("config")

\* variables of the single caller and of priming, untouched here
single == <<mode, base_prompt, frame, dialect, a_string, result,
            session_log_fin, dev, steps, loop_i, polls, new_data, prompt_line, count, cur_prompt>>

InitTwoCallers ==
    /\ mode = "config"
    /\ base_prompt = <<"admin", "@", "mx1">>
    /\ fast_cli \in BOOLEAN
    /\ NoCall
    /\ dialect = "juniper"
    /\ a_string = <<>>
    /\ result = <<>>
    /\ session_log_fin = FALSE
    /\ PrimeIdle
    /\ channel = <<>>
    /\ callers \in [Callers -> [pc : {"try"},
                                command_string : CallerCommands,
                                fast_cli_state : {FALSE},
                                output : {<<>>},
                                exc : {NoError},
                                raised : {NoError}]]

\* fast_cli_state = self.fast_cli
CallerSave(c) ==
    /\ callers[c].pc = "try"
    /\ callers' = [callers EXCEPT ![c].fast_cli_state = fast_cli,
                                  ![c].pc = "clear"]
    /\ UNCHANGED <<fast_cli, buffer, channel, single>>

\* self.fast_cli = False
CallerClear(c) ==
    /\ callers[c].pc = "clear"
    /\ fast_cli' = FALSE
    /\ callers' = [callers EXCEPT ![c].pc = "send_write"]
    /\ UNCHANGED <<buffer, channel, single>>

\* send_command(command_string, ...): the command goes to the channel
CallerSendWrite(c) ==
    /\ callers[c].pc = "send_write"
    /\ channel' = Append(channel, <<c, "write">>)
    /\ buffer' = buffer \o CommitAnswer(NormalizeCmd(callers[c].command_string))
    /\ callers' = [callers EXCEPT ![c].pc = "send_read"]
    /\ UNCHANGED <<fast_cli, single>>

\* send_command(...): what the channel holds is read; with nothing to read
\* the prompt is never seen and the read times out
CallerSendRead(c) ==
    /\ callers[c].pc = "send_read"
    /\ channel' = Append(channel, <<c, "read">>)
    /\ buffer' = <<>>
    /\ callers' = [callers EXCEPT
                      ![c].output = buffer,
                      ![c].exc = IF buffer = <<>> THEN ReadTimeout ELSE NoError,
                      ![c].pc = "finally"]
    /\ UNCHANGED <<fast_cli, single>>

\* finally: self.fast_cli = fast_cli_state
CallerFinally(c) ==
    /\ callers[c].pc = "finally"
    /\ fast_cli' = callers[c].fast_cli_state
    /\ callers' = [callers EXCEPT
                      ![c].raised = callers[c].exc,
                      ![c].exc = NoError,
                      ![c].pc = IF callers[c].exc = NoError THEN "verify"
                                ELSE "done"]
    /\ UNCHANGED <<buffer, channel, single>>

\* if commit_marker not in output: raise ValueError(...); return output
CallerVerify(c) ==
    /\ callers[c].pc = "verify"
    /\ callers' = [callers EXCEPT
                      ![c].raised =
                          IF Contains(callers[c].output, MarkerOf(callers[c].command_string))
                          THEN NoError
                          ELSE ValueError(CommitFailedMsg(callers[c].output)),
                      ![c].pc = "done"]
    /\ UNCHANGED <<fast_cli, buffer, channel, single>>

NextTwoCallers ==
    \E c \in Callers :
        \/ CallerSave(c)
        \/ CallerClear(c)
        \/ CallerSendWrite(c)
        \/ CallerSendRead(c)
        \/ CallerFinally(c)
        \/ CallerVerify(c)

SpecTwoCallers == InitTwoCallers /\ [][NextTwoCallers]_vars

(* ------------------------------------------------------------------------ *)
(* Claim about two callers                                                  *)
(* ------------------------------------------------------------------------ *)
\* both commits are over
BothDone == \A c \in Callers : callers[c].pc = "done"

\* C20: with two callers of commit() on one session, the write and the read
\* of one command are next to each other on the channel, with nothing of
\* the other command between them, and when both commits are over the
\* fast-mode flag has the value it had before them.
C20_CallersMutuallyExcluded ==
    callers # <<>>
    => /\ \A k \in 1..Len(channel) :
             (channel[k][2] = "read" /\ k > 1)
             => channel[k - 1] = <<channel[k][1], "write">>
       /\ BothDone => fast_cli = pre.fast_cli

(* ------------------------------------------------------------------------ *)
(* Further claims about commit() and exit_config_mode() of Juniper          *)
(* ------------------------------------------------------------------------ *)
\* how often the current call has written the line
TimesWritten(line) == Cardinality({k \in 1..Len(writes) : writes[k] = line})

\* the writes of the current call that begin with the word
WritesOf(word) == {k \in 1..Len(writes) : writes[k][1] = word}

\* C21: within one commit() call at most one write is a commit command, and
\* within one exit_config_mode() call the exit command is written at most
\* once, also when the call ends with an error because the pattern or the
\* marker did not show up or the device stayed in configuration mode.
C21_NoRetryOfTheCommand ==
    /\ op = "commit" => Cardinality(WritesOf("commit")) <= 1
    /\ op = "exit_config_mode" => TimesWritten(NormalizeCmd(ExitConfig)) <= 1

C21_Witness ==
    /\ CommitWritten
    /\ pc = "done"
    /\ raised = ReadTimeout
    /\ Cardinality(WritesOf("commit")) = 1

\* commit(check=True, and_quit=True) and nothing else
CheckAndQuit ==
    /\ op = "commit"
    /\ args = [confirm |-> FALSE, confirm_delay |-> 0, check |-> TRUE,
               comment |-> <<>>, and_quit |-> TRUE]

\* C22: commit(check=True, and_quit=True) raises none of the invalid-argument
\* errors; the command it writes is  commit check and-quit; it returns
\* without error only with 'configuration check succeeds' in its output and
\* raises the commit-failed error when its completed read lacks it.
C22_CheckWithQuitAccepted ==
    CheckAndQuit
    => /\ raised.msg \notin InvalidArgumentMsgs
       /\ pc = "done" => writes # <<>>
       /\ \A k \in WritesOf("commit") :
             writes[k] = <<"commit", " ", "check", " ", "and-quit", "\n">>
       /\ pc \in {"commit_comment", "cm_check", "cm_enter", "cm_recheck",
                  "commit_expect", "commit_try", "commit_send",
                  "commit_finally", "commit_verify"}
          => commit_marker = CommitMarkerCheck
       /\ (pc = "done" /\ raised = NoError)
          => Contains(output, CommitMarkerCheck)
       /\ (pc = "done" /\ CommitWritten /\ raised # ReadTimeout
           /\ ~Contains(output, CommitMarkerCheck))
          => raised = ValueError(CommitFailedMsg(output))

C22_Witness ==
    /\ CheckAndQuit
    /\ pc = "done"
    /\ raised = NoError
    /\ writes[Len(writes)] = <<"commit", " ", "check", " ", "and-quit", "\n">>
    /\ Contains(output, CommitMarkerCheck)

\* the commit was called in configuration mode or has reached it
CommitInConfigMode == op = "commit" /\ (pre.mode = "config" \/ CommitWritten)

C28_ExitOutsideConfigModeIsNoOp ==
    (op = "exit_config_mode" /\ pc = "done" /\ pre.mode = "operational")
    => /\ writes = <<RETURN>>
       /\ output = <<>>
       /\ raised = NoError
       /\ mode = "operational"

C28_Witness ==
    /\ op = "exit_config_mode"
    /\ pc = "done"
    /\ pre.mode = "operational"
    /\ writes = <<RETURN>>
    /\ output = <<>>

(* ------------------------------------------------------------------------ *)
(* Further claim about cleanup() of Juniper                                 *)
(* ------------------------------------------------------------------------ *)
\* C25: a cleanup() of Juniper that was called in configuration mode and has
\* finished has written the exit-configuration command before its final
\* exit command.
C25_CleanupLeavesConfigModeFirst ==
    (op = "cleanup" /\ pc = "closed" /\ pre.mode = "config")
    => \E j \in 1..Len(writes) :
          /\ writes[j] = NormalizeCmd(ExitConfig)
          /\ j < Len(writes)
          /\ writes[Len(writes)] = CleanupCommand \o RETURN

(* ------------------------------------------------------------------------ *)
(* set_base_prompt() of HP Comware, called by itself against a device that  *)
(* shows one prompt line, character by character.                           *)
(* ------------------------------------------------------------------------ *)
MaxPromptLen == 3
MaxDetections == 2
PromptChars == {"<", "[", ">", "]", "H", " "}
PromptLines == SeqsUpTo(PromptChars, MaxPromptLen)

InitDetect ==
    /\ dialect = "hp_comware"
    /\ mode = "operational"
    /\ base_prompt = <<>>
    /\ fast_cli = TRUE
    /\ NoCall
    /\ a_string = <<>>
    /\ result = <<>>
    /\ session_log_fin = FALSE
    /\ buffer = <<>>
    /\ dev = [host |-> <<>>, banner |-> 0, need |-> 0, mute |-> FALSE]
    /\ steps = <<>>
    /\ loop_i = 0
    /\ polls = 0
    /\ new_data = <<>>
    /\ OneCaller
    /\ prompt_line \in PromptLines
    /\ count = 0
    /\ cur_prompt = <<>>

HPSetBasePromptCall ==
    /\ Len(steps) < MaxDetections
    /\ Enter("set_base_prompt", NoArgs, "set_base_prompt")

\* prompt = super().set_base_prompt(...); prompt = prompt[1:];
\* prompt = prompt.strip(); self.base_prompt = prompt
HPSetBasePromptRun ==
    /\ pc = "set_base_prompt"
    /\ writes' = Append(writes, LINE_FEED)
    /\ steps' = Append(steps, "set_base_prompt")
    /\ StoreBasePrompt(Strip(prompt_line), "done")
    /\ UNCHANGED <<mode, buffer, dev, loop_i, polls, new_data, exc, unprimed>>

NextDetect == HPSetBasePromptCall \/ HPSetBasePromptRun

SpecDetect == InitDetect /\ [][NextDetect]_vars

(* ------------------------------------------------------------------------ *)
(* Claim about base-prompt detection                                        *)
(* ------------------------------------------------------------------------ *)
Brackets == {"<", "[", ">", "]"}

\* a detection has stored a base prompt
Detected ==
    /\ op = "set_base_prompt"
    /\ pc = "done"
    /\ raised = NoError

\* the base prompt of a prompt line by section 4.1: the terminator at the
\* end goes, the character at the front goes if it is a bracket
DetectBasePrompt(line) ==
    LET body == SubSeq(line, 1, Len(line) - 1)
    IN  IF body # <<>> /\ Head(body) \in Brackets
        THEN Strip(Tail(body))
        ELSE Strip(body)

\* C24: HP Comware detection stores the prompt line without its terminator
\* and without its first character if that is a bracket, and with its first
\* character if that is no bracket; a second detection against the same
\* prompt line stores what the first stored.
C24_LeadingBracketOnlyStripped ==
    Detected
    => /\ base_prompt = DetectBasePrompt(Strip(prompt_line))
       /\ Len(steps) = 2 => base_prompt = pre.base_prompt

(* ------------------------------------------------------------------------ *)
(* enter_cli_mode() and session_preparation() of Juniper.  The device may   *)
(* show a shell or the CLI and may stay silent: what a read returns is any  *)
(* of the texts CliReads, and a command of the priming is confirmed or not. *)
(* ------------------------------------------------------------------------ *)
CliAttempts == 50
CliCommand == <<"cli">>

CliReads ==
    { <<>>,                          \* nothing
      <<"login", ":">>,              \* neither a shell nor a CLI prompt
      <<"5", "%">>,                  \* a percent sign that is not alone
      <<"root@", "%">>,              \* the shell of root
      <<"\n", "%", " ">>,            \* a lone percent sign: a shell
      <<"user", ">">>,               \* the CLI, operational mode
      <<"user", "#">>,               \* the CLI, configuration mode
      <<"root@", ">">>,              \* the CLI of root
      <<"%", ">">> }                 \* a CLI prompt with a percent sign

\* re.search(r"root@", cur_prompt) or re.search(r"^%$", cur_prompt.strip())
ShellIndicator(text) ==
    Contains(text, <<"root@">>) \/ Strip(text) = <<"%">>

\* ">" in cur_prompt or "#" in cur_prompt
CliIndicator(text) ==
    Contains(text, <<">">>) \/ Contains(text, <<"#">>)

\* a loop that tests for the CLI prompt before it tests for the shell
CliBranchPromptFirst(text) ==
    IF CliIndicator(text) THEN "break"
    ELSE IF ShellIndicator(text) THEN "cli"
    ELSE "again"

\* the if / elif of the loop body
CliBranch(text) ==
    IF ShellIndicator(text) THEN "cli"
    ELSE IF CliIndicator(text) THEN "break"
    ELSE "again"

\* variables the priming of Juniper leaves alone
unprimed_juniper == <<fast_cli, op, args, command_string, commit_marker,
                      expect_string, fast_cli_state, output, cm_output,
                      cmd_out, in_config, pre, dialect, a_string, result,
                      session_log_fin, shared, prompt_line, loop_i, polls,
                      new_data, exc, mode>>

EnterCliModeCall ==
    /\ steps = <<>>
    /\ Enter("enter_cli_mode", NoArgs, "enter_cli_mode")

JuniperSessionPreparationCall ==
    /\ steps = <<>>
    /\ Enter("session_preparation", NoArgs, "enter_cli_mode")

\* where enter_cli_mode() returns to
CliReturn ==
    IF op = "session_preparation" THEN "set_terminal_width" ELSE "done"

\* count = 0; cur_prompt = ""
EnterCliModeBegin ==
    /\ pc = "enter_cli_mode"
    /\ count' = 0
    /\ cur_prompt' = <<>>
    /\ steps' = Append(steps, "enter_cli_mode")
    /\ pc' = "cli_loop"
    /\ UNCHANGED <<writes, buffer, dev, base_prompt, raised, unprimed_juniper>>

\* one iteration of  while count < 50
EnterCliModeLoop ==
    /\ pc = "cli_loop"
    /\ count < CliAttempts
    /\ \E text \in CliReads :
          /\ cur_prompt' = text
          /\ LET branch == CliBranch(text)
             IN  /\ writes' = (IF branch = "cli"
                               THEN writes \o <<RETURN, CliCommand \o RETURN>>
                               ELSE Append(writes, RETURN))
                 /\ buffer' = (IF branch = "cli" THEN <<>> ELSE buffer)
                 /\ count' = (IF branch = "again" THEN count + 1 ELSE count)
                 /\ pc' = (IF branch = "again" THEN "cli_loop" ELSE CliReturn)
    /\ UNCHANGED <<steps, dev, base_prompt, raised, unprimed_juniper>>

\* the loop condition fails
EnterCliModeEnd ==
    /\ pc = "cli_loop"
    /\ count >= CliAttempts
    /\ pc' = CliReturn
    /\ UNCHANGED <<writes, buffer, dev, steps, count, cur_prompt, base_prompt,
                   raised, unprimed_juniper>>

\* a command of the priming: it is written, and the pattern that confirms it
\* is read back or not
JuniperPrimeCommand(step, command, next) ==
    /\ steps' = Append(steps, step)
    /\ writes' = Append(writes, NormalizeCmd(command))
    /\ \E confirmed \in BOOLEAN :
          IF confirmed THEN pc' = next /\ UNCHANGED raised
          ELSE Raise(ReadTimeout)
    /\ UNCHANGED <<buffer, dev, count, cur_prompt, base_prompt,
                   unprimed_juniper>>

JuniperWidthCommand == <<"set cli screen-width 511">>
JuniperCompleteCommand == <<"set cli complete-on-space off">>
JuniperPagingCommand == <<"set cli screen-length 0">>

JuniperPrimeWidth ==
    /\ pc = "set_terminal_width"
    /\ JuniperPrimeCommand("set_terminal_width",
                           JuniperWidthCommand, "complete_on_space")

JuniperPrimeComplete ==
    /\ pc = "complete_on_space"
    /\ JuniperPrimeCommand("disable_paging",
                           JuniperCompleteCommand, "disable_paging")

JuniperPrimePaging ==
    /\ pc = "disable_paging"
    /\ JuniperPrimeCommand("disable_paging",
                           JuniperPagingCommand, "set_base_prompt")

\* self.set_base_prompt(): the prompt line of the device is read, or nothing
JuniperPrimePrompt ==
    /\ pc = "set_base_prompt"
    /\ steps' = Append(steps, "set_base_prompt")
    /\ writes' = Append(writes, RETURN)
    /\ \E line \in {dev.host \o <<">">>, <<>>} : StoreBasePrompt(line, "done")
    /\ UNCHANGED <<buffer, dev, count, cur_prompt, unprimed_juniper>>

JuniperHosts == {<<"user@", "host">>, <<"root@", "re0">>}

InitJuniperPrime ==
    /\ dialect = "juniper"
    /\ mode = "operational"
    /\ base_prompt = <<>>
    /\ fast_cli = TRUE
    /\ NoCall
    /\ a_string = <<>>
    /\ result = <<>>
    /\ session_log_fin = FALSE
    /\ buffer = <<>>
    /\ \E h \in JuniperHosts :
          dev = [host |-> h, banner |-> 0, need |-> 0, mute |-> FALSE]
    /\ steps = <<>>
    /\ loop_i = 0
    /\ polls = 0
    /\ new_data = <<>>
    /\ prompt_line = <<>>
    /\ count = 0
    /\ cur_prompt = <<>>
    /\ OneCaller

NextJuniperPrime ==
    \/ EnterCliModeCall
    \/ JuniperSessionPreparationCall
    \/ EnterCliModeBegin
    \/ EnterCliModeLoop
    \/ EnterCliModeEnd
    \/ JuniperPrimeWidth
    \/ JuniperPrimeComplete
    \/ JuniperPrimePaging
    \/ JuniperPrimePrompt

SpecJuniperPrime == InitJuniperPrime /\ [][NextJuniperPrime]_vars

\* a method that has been called keeps running: its sleeps and reads return
SpecJuniperPrimeFair == SpecJuniperPrime /\ WF_vars(NextJuniperPrime)

(* ------------------------------------------------------------------------ *)
(* Claim about enter_cli_mode()                                             *)
(* ------------------------------------------------------------------------ *)
CliWritten == TimesWritten(CliCommand \o RETURN)

CliModeBounds ==
    op = "enter_cli_mode"
    => /\ TimesWritten(RETURN) <= CliAttempts
       /\ CliWritten <= 1
       /\ CliWritten = 1 => pc = "done" /\ ShellIndicator(cur_prompt)
       /\ pc = "done"
          => /\ raised = NoError
             /\ ShellIndicator(cur_prompt) => CliWritten = 1
             /\ ~ShellIndicator(cur_prompt) => CliWritten = 0
             /\ ~ShellIndicator(cur_prompt) /\ ~CliIndicator(cur_prompt)
                => count = CliAttempts /\ TimesWritten(RETURN) = CliAttempts

\* C26: enter_cli_mode() ends, after at most 50 bare returns written; "cli"
\* is written at most once and only after a read that shows "root@" or a lone
\* "%", also when that read shows ">" as well; a read that shows ">" or "#"
\* and no shell ends the call without "cli"; 50 reads that show none of these
\* end it without "cli" and without an error.
C26_EnterCliModeBounded ==
    /\ []CliModeBounds
    /\ (op = "enter_cli_mode") ~> (op = "enter_cli_mode" /\ pc = "done")

\* 50 silent reads: 50 bare returns and no "cli"
C26_Witness ==
    /\ op = "enter_cli_mode"
    /\ pc = "done"
    /\ TimesWritten(RETURN) = CliAttempts
    /\ CliWritten = 0

(* ------------------------------------------------------------------------ *)
(* Claim about the order of session priming                                 *)
(* ------------------------------------------------------------------------ *)
\* C23: in the priming of every dialect the base prompt is derived and stored
\* before a paging-disable command is written: a disable_paging() of
\* session_preparation() comes after a set_base_prompt() of it.
C23_BasePromptBeforePaging ==
    Priming
    => \A k \in 1..Len(steps) :
          steps[k] = "disable_paging"
          => \E j \in 1..(k - 1) : steps[j] = "set_base_prompt"

====
